---- MODULE Spec2Model ----
(***************************************************************************)
(* Scrolling sports ticker plugin (src/manager.py): the refresh            *)
(* orchestrator update(), the display tick display(), the ticker composer  *)
(* and viewport engine, the section classifier and the NCAA filters.       *)
(*                                                                         *)
(* Text is a tuple of one-character strings; an image is a record with a   *)
(* width, a height and one value per pixel column; time.time() is counted  *)
(* in units of 4 ms; a local start time is counted in minutes.             *)
(***************************************************************************)
EXTENDS Integers, Sequences, FiniteSets, TLC

VARIABLES
    config,            \* self.config
    enable_scrolling,  \* self.enable_scrolling
    font_state,        \* self._font, self._body_font, self._font_signature
    ticker_image,      \* self._ticker_image
    vegas_items,       \* self._vegas_items
    games_by_league,   \* self._games_by_league
    league_logo_urls,  \* self._league_logo_urls
    live_games_count,  \* self._live_games_count
    scroll_offset,     \* self._scroll_offset
    cycle_complete,    \* self._cycle_complete
    last_frame_ts,     \* self._last_frame_ts
    dm_image,          \* self.display_manager.image
    now,               \* time.time()
    wall_clock,        \* datetime.now(): minutes since day 0, in UTC
    pc,                \* where the host is: "construct", "ready", or before/after one function
    last,              \* the last call: its name, what it found and its result
    arg,               \* the argument of the one function a specification applies
    update_count       \* how many times update() has run since construction

vars == <<config, enable_scrolling, font_state, ticker_image, vegas_items,
          games_by_league, league_logo_urls, live_games_count, scroll_offset,
          cycle_complete, last_frame_ts, dm_image, now, wall_clock, pc, last, arg, update_count>>

plugin_vars == <<enable_scrolling, font_state, ticker_image, vegas_items,
                 games_by_league, league_logo_urls, live_games_count,
                 scroll_offset, cycle_complete, last_frame_ts>>

\* ------------------------------------------------------------------------
\* Bounds of the model
\* ------------------------------------------------------------------------
MaxTime == 2
MaxUpdates == 3
MaxCropWidth == 12
MaxItemWidth == 2
MaxItems == 3
MaxGames == 3
MaxDay == 1
MaxAgeExcess == 1

\* ------------------------------------------------------------------------
\* Values of the host
\* ------------------------------------------------------------------------
MaxPanelItems == 2

DisplayWidth == 4
DisplayHeight == 8

\* ------------------------------------------------------------------------
\* Python helpers
\* ------------------------------------------------------------------------
Max(a, b) == IF a >= b THEN a ELSE b
Min(a, b) == IF a <= b THEN a ELSE b

None == [kind |-> "none"]
IsNone(v) == v.kind = "none"

Range(s) == {s[i] : i \in 1..Len(s)}

RECURSIVE SumSeq(_)
SumSeq(s) == IF s = <<>> THEN 0 ELSE Head(s) + SumSeq(Tail(s))

RECURSIVE Concat(_)
Concat(ss) == IF ss = <<>> THEN <<>> ELSE Head(ss) \o Concat(Tail(ss))


LowerCase == <<"a","b","c","d","e","f","g","h","i","j","k","l","m",
               "n","o","p","q","r","s","t","u","v","w","x","y","z">>
UpperCase == <<"A","B","C","D","E","F","G","H","I","J","K","L","M",
               "N","O","P","Q","R","S","T","U","V","W","X","Y","Z">>

UpperChar(c) ==
    IF \E i \in 1..26 : LowerCase[i] = c
    THEN UpperCase[CHOOSE i \in 1..26 : LowerCase[i] = c]
    ELSE c

Upper(text) == [i \in 1..Len(text) |-> UpperChar(text[i])]

IsSpace(c) == c = " "

RECURSIVE LStrip(_)
LStrip(text) ==
    IF text # <<>> /\ IsSpace(Head(text)) THEN LStrip(Tail(text)) ELSE text

RECURSIVE RStrip(_)
RStrip(text) ==
    IF text # <<>> /\ IsSpace(text[Len(text)])
    THEN RStrip(SubSeq(text, 1, Len(text) - 1))
    ELSE text

Strip(text) == RStrip(LStrip(text))

\* str.split(sep) for a one-character separator: the pieces between separators
RECURSIVE SplitOn(_, _, _)
SplitOn(text, sep, piece) ==
    IF text = <<>> THEN <<piece>>
    ELSE IF Head(text) = sep
         THEN <<piece>> \o SplitOn(Tail(text), sep, <<>>)
         ELSE SplitOn(Tail(text), sep, Append(piece, Head(text)))

\* str.split(): the whitespace-separated words, none of them empty
SplitWords(text) == SelectSeq(SplitOn(text, " ", <<>>), LAMBDA w : w # <<>>)

RECURSIVE JoinWords(_)
JoinWords(words) ==
    IF words = <<>> THEN <<>>
    ELSE IF Len(words) = 1 THEN Head(words)
         ELSE Head(words) \o <<" ">> \o JoinWords(Tail(words))

normalize_name(value) == JoinWords(SplitWords(Upper(Strip(value))))

\* ------------------------------------------------------------------------
\* Static tables
\* ------------------------------------------------------------------------
LEAGUES == <<
    [key |-> "nfl", name |-> <<"N","F","L">>, enabled_key |-> "league_nfl_enabled",
     is_ncaa |-> FALSE, ncaa_kind |-> "", default_group |-> ""],
    [key |-> "nba", name |-> <<"N","B","A">>, enabled_key |-> "league_nba_enabled",
     is_ncaa |-> FALSE, ncaa_kind |-> "", default_group |-> ""],
    [key |-> "nhl", name |-> <<"N","H","L">>, enabled_key |-> "league_nhl_enabled",
     is_ncaa |-> FALSE, ncaa_kind |-> "", default_group |-> ""],
    [key |-> "mlb", name |-> <<"M","L","B">>, enabled_key |-> "league_mlb_enabled",
     is_ncaa |-> FALSE, ncaa_kind |-> "", default_group |-> ""],
    [key |-> "ncaam", name |-> <<"N","C","A","A"," ","M","B","B">>,
     enabled_key |-> "league_ncaam_enabled",
     is_ncaa |-> TRUE, ncaa_kind |-> "basketball", default_group |-> "50"],
    [key |-> "ncaaf", name |-> <<"N","C","A","A"," ","F","B">>,
     enabled_key |-> "league_ncaaf_enabled",
     is_ncaa |-> TRUE, ncaa_kind |-> "football", default_group |-> "80"] >>

LeagueKeys == {LEAGUES[i].key : i \in 1..Len(LEAGUES)}

NCAA_CONFERENCES == [
    football |-> {
      <<<<"A","C","C">>, 1>>,
      <<<<"A","M","E","R","I","C","A","N"," ","A","T","H","L","E","T","I","C">>, 151>>,
      <<<<"B","I","G"," ","1","2">>, 4>>,
      <<<<"B","I","G"," ","T","E","N">>, 5>>,
      <<<<"C","-","U","S","A">>, 12>>,
      <<<<"I","N","D","E","P","E","N","D","E","N","T","S">>, 18>>,
      <<<<"M","A","C">>, 15>>,
      <<<<"M","O","U","N","T","A","I","N"," ","W","E","S","T">>, 17>>,
      <<<<"P","A","C","-","1","2">>, 9>>,
      <<<<"S","E","C">>, 8>>,
      <<<<"S","U","N"," ","B","E","L","T">>, 37>>,
      <<<<"F","C","S"," ","I","N","D","E","P","E","N","D","E","N","T","S">>, 40>>,
      <<<<"A","S","U","N","-","W","A","C">>, 48>>,
      <<<<"B","I","G"," ","S","K","Y">>, 20>>,
      <<<<"B","I","G"," ","S","O","U","T","H","-","O","V","C">>, 73>>,
      <<<<"C","A","A">>, 68>>,
      <<<<"F","C","S"," ","(","I","A",")"," ","I","N","D","E","P","E","N","D","E","N","T","S">>, 40>>,
      <<<<"I","V","Y">>, 22>>,
      <<<<"M","E","A","C">>, 16>>,
      <<<<"M","I","S","S","O","U","R","I"," ","V","A","L","L","E","Y">>, 21>>,
      <<<<"N","O","R","T","H","E","A","S","T">>, 24>>,
      <<<<"P","A","T","R","I","O","T">>, 25>>,
      <<<<"P","I","O","N","E","E","R">>, 81>>,
      <<<<"S","O","C","O","N">>, 27>>,
      <<<<"S","O","U","T","H","L","A","N","D">>, 26>>,
      <<<<"S","W","A","C">>, 28>>,
      <<<<"U","A","C">>, 98>>
    },
    basketball |-> {
      <<<<"A","C","C">>, 2>>,
      <<<<"A","M","E","R","I","C","A"," ","E","A","S","T">>, 1>>,
      <<<<"A","M","E","R","I","C","A","N"," ","A","T","H","L","E","T","I","C">>, 62>>,
      <<<<"A","T","L","A","N","T","I","C"," ","1","0">>, 3>>,
      <<<<"A","T","L","A","N","T","I","C"," ","S","U","N">>, 17>>,
      <<<<"B","I","G"," ","1","2">>, 8>>,
      <<<<"B","I","G"," ","E","A","S","T">>, 4>>,
      <<<<"B","I","G"," ","S","K","Y">>, 5>>,
      <<<<"B","I","G"," ","S","O","U","T","H">>, 6>>,
      <<<<"B","I","G"," ","T","E","N">>, 7>>,
      <<<<"B","I","G"," ","W","E","S","T">>, 9>>,
      <<<<"C","-","U","S","A">>, 12>>,
      <<<<"C","A","A">>, 10>>,
      <<<<"H","O","R","I","Z","O","N"," ","L","E","A","G","U","E">>, 45>>,
      <<<<"I","V","Y">>, 13>>,
      <<<<"M","A","A","C">>, 14>>,
      <<<<"M","A","C">>, 15>>,
      <<<<"M","E","A","C">>, 16>>,
      <<<<"M","I","S","S","O","U","R","I"," ","V","A","L","L","E","Y">>, 18>>,
      <<<<"M","O","U","N","T","A","I","N"," ","W","E","S","T">>, 19>>,
      <<<<"N","O","R","T","H","E","A","S","T">>, 20>>,
      <<<<"O","H","I","O"," ","V","A","L","L","E","Y">>, 23>>,
      <<<<"P","A","T","R","I","O","T">>, 24>>,
      <<<<"S","E","C">>, 23>>,
      <<<<"S","O","C","O","N">>, 26>>,
      <<<<"S","O","U","T","H","L","A","N","D">>, 27>>,
      <<<<"S","U","M","M","I","T"," ","L","E","A","G","U","E">>, 25>>,
      <<<<"S","U","N"," ","B","E","L","T">>, 37>>,
      <<<<"S","W","A","C">>, 28>>,
      <<<<"W","A","C">>, 29>>,
      <<<<"W","E","S","T"," ","C","O","A","S","T">>, 30>>
    } ]

\* ------------------------------------------------------------------------
\* Configuration access
\* ------------------------------------------------------------------------
\* dict.get(key, default)
Get(cfg, key, default) == IF key \in DOMAIN cfg THEN cfg[key] ELSE default

EmptyList == [type |-> "list", value |-> <<>>]

NonEmptyStripped(texts) ==
    SelectSeq([i \in 1..Len(texts) |-> Strip(texts[i])], LAMBDA t : t # <<>>)

get_list_config(cfg, key) ==
    LET value == Get(cfg, key, EmptyList) IN
    IF value.type = "list" THEN NonEmptyStripped(value.value)
    ELSE IF value.type = "str" THEN NonEmptyStripped(SplitOn(value.value, ",", <<>>))
    ELSE <<>>

normalize_team_filters(teams) ==
    SelectSeq([i \in 1..Len(teams) |-> Upper(Strip(teams[i]))], LAMBDA t : t # <<>>)

Lookup(table, name) ==
    IF \E p \in table : p[1] = name
    THEN {(CHOOSE p \in table : p[1] = name)[2]}
    ELSE {}

selected_conference_ids(cfg, kind) ==
    LET key == IF kind = "football" THEN "ncaaf_conferences" ELSE "ncaam_conferences"
        selected == get_list_config(cfg, key)
        lookup == IF kind \in DOMAIN NCAA_CONFERENCES THEN NCAA_CONFERENCES[kind] ELSE {}
    IN UNION {Lookup(lookup, normalize_name(selected[i])) : i \in 1..Len(selected)}

\* a timezone is its offset from UTC in minutes; the default is America/New_York
get_timezone(cfg) == Get(cfg, "timezone", -300)

\* ------------------------------------------------------------------------
\* Fonts and text measurement
\* ------------------------------------------------------------------------
DefaultFont == [family |-> "pil_default", size |-> 8]

InitialFontState ==
    [font |-> DefaultFont, body_font |-> DefaultFont, signature |-> <<"", 0, "">>]

load_font(family, size, explicit_path) == [family |-> family, size |-> size]

refresh_font(cfg, fs) ==
    LET family == Get(cfg, "font_family", "press_start_2p")
        size == Max(5, Get(cfg, "font_size", 8))
        path == Get(cfg, "font_path", "")
        signature == <<family, size, path>>
    IN IF signature = fs.signature THEN fs
       ELSE [font |-> load_font(family, size, path),
             body_font |-> load_font(family, Max(4, size - 2), path),
             signature |-> signature]

\* the width of a text drawn in a font: every glyph advances by half the font size
measure_text(text, font) == Len(text) * (font.size \div 2)

\* ------------------------------------------------------------------------
\* Parsing: an event of the payload becomes a GameEntry or nothing
\* ------------------------------------------------------------------------
MinutesPerDay == 1440

\* datetime.date() of a time counted in minutes
DateOf(minutes) == minutes \div MinutesPerDay

\* a competitor entry of the payload is a dict or something else (is_dict);
\* the entry that is on the given side
OnSide(comp, side) == comp.is_dict /\ comp.homeAway = side

\* comp.get(...) raises AttributeError on an entry that is not a dict: the loop
\* reaches such an entry before it returns
find_competitor_raises(competitors, side) ==
    \E i \in 1..Len(competitors) :
        /\ ~competitors[i].is_dict
        /\ \A j \in 1..(i - 1) : ~OnSide(competitors[j], side)

find_competitor(competitors, side) ==
    IF \E i \in 1..Len(competitors) : OnSide(competitors[i], side)
    THEN {competitors[CHOOSE i \in 1..Len(competitors) :
              /\ OnSide(competitors[i], side)
              /\ \A j \in 1..(i - 1) : ~OnSide(competitors[j], side)]}
    ELSE IF competitors # <<>> THEN {competitors[1]} ELSE {}

ordinal_label(value) ==
    LET digits == <<"0","1","2","3","4","5","6","7","8","9">>
        number == IF value < 10 THEN <<digits[value + 1]>>
                  ELSE <<digits[((value \div 10) % 10) + 1], digits[(value % 10) + 1]>>
        suffix == IF 10 <= value % 100 /\ value % 100 <= 20 THEN <<"T","H">>
                  ELSE IF value % 10 = 1 THEN <<"S","T">>
                  ELSE IF value % 10 = 2 THEN <<"N","D">>
                  ELSE IF value % 10 = 3 THEN <<"R","D">>
                  ELSE <<"T","H">>
    IN number \o suffix

ZeroClocks == { <<"0",":","0","0">>, <<"0","0",":","0","0">>,
                <<"0",":","0","0",".","0">>, <<"0","0",":","0","0",".","0">> }

\* the event carries no status detail text, so only the period number and the
\* display clock are read
extract_live_period_and_clock(event) ==
    LET period_label == IF event.period > 0 THEN ordinal_label(event.period) ELSE <<>>
        clock == Strip(event.displayClock)
    IN <<period_label, IF clock \in ZeroClocks THEN <<>> ELSE clock>>

team_abbreviation(competitor) ==
    IF competitor.abbr # <<>> THEN Upper(competitor.abbr) ELSE <<"T","E","A","M">>

\* f"{spread_value:+.1f}" of a spread counted in tenths
SignedTenths(tenths) ==
    LET size == IF tenths < 0 THEN 0 - tenths ELSE tenths
        digits == <<"0","1","2","3","4","5","6","7","8","9">>
        whole == IF size \div 10 < 10 THEN <<digits[(size \div 10) + 1]>>
                 ELSE <<digits[((size \div 100) % 10) + 1], digits[((size \div 10) % 10) + 1]>>
    IN (IF tenths < 0 THEN <<"-">> ELSE <<"+">>) \o whole \o <<".">> \o <<digits[(size % 10) + 1]>>

\* the first odds entry carries a details text, a numeric spread (a set with
\* the value in tenths, empty when there is none), both or neither
extract_spread(event) ==
    IF event.odds_details # <<>>
    THEN <<"S","p","r","e","a","d"," ">> \o event.odds_details
    ELSE IF event.odds_spread # {}
    THEN <<"S","p","r","e","a","d"," ">> \o SignedTenths(CHOOSE t \in event.odds_spread : TRUE)
    ELSE <<"S","p","r","e","a","d"," ","N","/","A">>

\* _parse_event raises: the exception of _find_competitor is not caught
parse_event_raises(event) ==
    /\ event.is_dict
    /\ event.competitions # <<>>
    /\ Len(event.competitions[1]) >= 2
    /\ \/ find_competitor_raises(event.competitions[1], "away")
       \/ find_competitor_raises(event.competitions[1], "home")

\* the result is a set: empty when the event is skipped, else the one GameEntry
parse_event(event, league, tz) ==
    IF ~event.is_dict THEN {}
    ELSE IF event.competitions = <<>> THEN {}
    ELSE LET competitors == event.competitions[1]
             away == find_competitor(competitors, "away")
             home == find_competitor(competitors, "home")
         IN IF Len(competitors) < 2 THEN {}
            ELSE IF away = {} \/ home = {} THEN {}
            ELSE IF event.date = {} THEN {}
            ELSE LET a == CHOOSE c \in away : TRUE
                     h == CHOOSE c \in home : TRUE
                     event_date == CHOOSE d \in event.date : TRUE
                     live == extract_live_period_and_clock(event)
                 IN {[event_id |-> event.id,
                      league_key |-> league.key,
                      state |-> IF event.state = "in" THEN "live"
                                ELSE IF event.state = "post" THEN "final"
                                ELSE "upcoming",
                      start_local |-> event_date + tz,
                      away_abbr |-> team_abbreviation(a),
                      home_abbr |-> team_abbreviation(h),
                      away_score |-> a.score,
                      home_score |-> h.score,
                      live_period_label |-> live[1],
                      live_clock |-> live[2],
                      away_rank |-> IF a.rank > 0 THEN {a.rank} ELSE {},
                      home_rank |-> IF h.rank > 0 THEN {h.rank} ELSE {},
                      away_conf |-> a.conf,
                      home_conf |-> h.conf,
                      away_conf_name |-> a.conf_name,
                      home_conf_name |-> h.conf_name,
                      away_logo_url |-> a.logo,
                      home_logo_url |-> h.logo,
                      spread_text |-> extract_spread(event)]}

\* ------------------------------------------------------------------------
\* NCAA inclusion filters
\* ------------------------------------------------------------------------
Top25 == 25

\* a filter in which a game that misses the team list falls through to the
\* conference and Top-25 filters, and a game on the team list must pass them too
passes_all_ncaa_filters(cfg, game, league) ==
    IF ~league.is_ncaa \/ league.ncaa_kind = "" THEN TRUE
    ELSE
    LET team_key == IF league.ncaa_kind = "football" THEN "ncaaf_teams" ELSE "ncaam_teams"
        teams == Range(normalize_team_filters(get_list_config(cfg, team_key)))
        conference_key == IF league.ncaa_kind = "football"
                          THEN "ncaaf_conferences" ELSE "ncaam_conferences"
        names == get_list_config(cfg, conference_key)
        selected_conference_names == {normalize_name(names[i]) : i \in 1..Len(names)}
        conference_ids == selected_conference_ids(cfg, league.ncaa_kind)
        id_match == (game.away_conf \cap conference_ids # {})
                    \/ (game.home_conf \cap conference_ids # {})
        name_match == (normalize_name(game.away_conf_name) \in selected_conference_names)
                      \/ (normalize_name(game.home_conf_name) \in selected_conference_names)
        top25_only == Get(cfg, "ncaa_top25_only", FALSE)
    IN /\ teams # {} =>
              Upper(game.away_abbr) \in teams \/ Upper(game.home_abbr) \in teams
       /\ (conference_ids # {} \/ selected_conference_names # {}) =>
              id_match \/ name_match
       /\ top25_only =>
              (\E r \in game.away_rank : r <= Top25) \/ (\E r \in game.home_rank : r <= Top25)

passes_ncaa_filters(cfg, game, league) ==
    IF ~league.is_ncaa \/ league.ncaa_kind = "" THEN TRUE
    ELSE
    LET team_key == IF league.ncaa_kind = "football" THEN "ncaaf_teams" ELSE "ncaam_teams"
        teams == Range(normalize_team_filters(get_list_config(cfg, team_key)))
        conference_key == IF league.ncaa_kind = "football"
                          THEN "ncaaf_conferences" ELSE "ncaam_conferences"
        names == get_list_config(cfg, conference_key)
        selected_conference_names == {normalize_name(names[i]) : i \in 1..Len(names)}
        conference_ids == selected_conference_ids(cfg, league.ncaa_kind)
        id_match == (game.away_conf \cap conference_ids # {})
                    \/ (game.home_conf \cap conference_ids # {})
        away_name == IF game.away_conf_name # <<>>
                     THEN normalize_name(game.away_conf_name) ELSE <<>>
        home_name == IF game.home_conf_name # <<>>
                     THEN normalize_name(game.home_conf_name) ELSE <<>>
        name_match == (away_name \in selected_conference_names)
                      \/ (home_name \in selected_conference_names)
        top25_only == Get(cfg, "ncaa_top25_only", FALSE)
    IN IF teams # {}
       THEN Upper(game.away_abbr) \in teams \/ Upper(game.home_abbr) \in teams
       ELSE IF conference_ids # {} \/ selected_conference_names # {}
       THEN id_match \/ name_match
       ELSE IF top25_only
       THEN (\E r \in game.away_rank : r <= Top25) \/ (\E r \in game.home_rank : r <= Top25)
       ELSE TRUE

\* ------------------------------------------------------------------------
\* Section classifier: sorted() is stable, also with reverse=True
\* ------------------------------------------------------------------------
RECURSIVE InsertAscending(_, _)
InsertAscending(sorted, g) ==
    IF sorted = <<>> THEN <<g>>
    ELSE IF Head(sorted).start_local <= g.start_local
         THEN <<Head(sorted)>> \o InsertAscending(Tail(sorted), g)
         ELSE <<g>> \o sorted

RECURSIVE InsertDescending(_, _)
InsertDescending(sorted, g) ==
    IF sorted = <<>> THEN <<g>>
    ELSE IF Head(sorted).start_local >= g.start_local
         THEN <<Head(sorted)>> \o InsertDescending(Tail(sorted), g)
         ELSE <<g>> \o sorted

RECURSIVE SortedBy(_, _)
SortedBy(games, reverse) ==
    IF games = <<>> THEN <<>>
    ELSE LET front == SortedBy(SubSeq(games, 1, Len(games) - 1), reverse)
             g == games[Len(games)]
         IN IF reverse THEN InsertDescending(front, g) ELSE InsertAscending(front, g)

max_games_of(cfg) == Max(1, Get(cfg, "max_games_per_section", 8))

\* a bucket that sorts ascending whatever the requested direction
bucket_ascending(parsed_games, state, reverse, max_games) ==
    SubSeq(SortedBy(SelectSeq(parsed_games, LAMBDA g : g.state = state), FALSE),
           1, Min(max_games, Len(SelectSeq(parsed_games, LAMBDA g : g.state = state))))

bucket(parsed_games, state, reverse, max_games) ==
    SubSeq(SortedBy(SelectSeq(parsed_games, LAMBDA g : g.state = state), reverse),
           1, Min(max_games, Len(SelectSeq(parsed_games, LAMBDA g : g.state = state))))

classify(parsed_games, max_games) ==
    [upcoming |-> bucket(parsed_games, "upcoming", FALSE, max_games),
     live |-> bucket(parsed_games, "live", FALSE, max_games),
     final |-> bucket(parsed_games, "final", TRUE, max_games)]

\* ------------------------------------------------------------------------
\* Text of a game card
\* ------------------------------------------------------------------------
Digits == <<"0","1","2","3","4","5","6","7","8","9">>
IsDigit(c) == \E i \in 1..10 : Digits[i] = c
IsAlnum(c) == IsDigit(c) \/ (\E i \in 1..26 : LowerCase[i] = c \/ UpperCase[i] = c)

\* str(n) of a number below 100
NumberText(n) == IF n < 10 THEN <<Digits[n + 1]>>
                 ELSE <<Digits[((n \div 10) % 10) + 1], Digits[(n % 10) + 1]>>
TwoDigits(n) == <<Digits[((n \div 10) % 10) + 1], Digits[(n % 10) + 1]>>

StartsWith(text, prefix) ==
    Len(text) >= Len(prefix) /\ SubSeq(text, 1, Len(prefix)) = prefix

\* the substring test "needle in text"
Contains(text, needle) ==
    \E i \in 0..(Len(text) - Len(needle)) : SubSeq(text, i + 1, i + Len(needle)) = needle

fit_text_to_width(text, max_width, font) ==
    LET ellipsis == <<".",".",".">>
        candidate(cut) == RStrip(SubSeq(text, 1, cut)) \o ellipsis
        fits == {cut \in 1..Len(text) : measure_text(candidate(cut), font) <= max_width}
    IN IF max_width <= 0 THEN <<>>
       ELSE IF measure_text(text, font) <= max_width THEN text
       ELSE IF fits # {} THEN candidate(CHOOSE cut \in fits : \A c \in fits : c <= cut)
       ELSE ellipsis

decorate_team(abbr, rank) ==
    IF \E r \in rank : r <= Top25
    THEN <<"#">> \o NumberText(CHOOSE r \in rank : TRUE) \o <<" ">> \o abbr
    ELSE abbr

\* strftime("%I").lstrip("0") or "12", ":", strftime("%M"), first letter of %p
format_time_compact(dt) ==
    LET minute_of_day == dt % MinutesPerDay
        hour24 == minute_of_day \div 60
        hour12 == IF hour24 % 12 = 0 THEN 12 ELSE hour24 % 12
        ampm == IF hour24 < 12 THEN <<"A","M">> ELSE <<"P","M">>
    IN NumberText(hour12) \o <<":">> \o TwoDigits(minute_of_day % 60) \o SubSeq(ampm, 1, 1)

\* re.search(r"([+-]?\d+(?:\.\d+)?)", text): the span <<start, end>> of the
\* leftmost match, counted from 0 as in Python, or <<>> when nothing matches
RECURSIVE DigitsEnd(_, _)
DigitsEnd(text, i) ==
    IF i + 1 <= Len(text) /\ IsDigit(text[i + 1]) THEN DigitsEnd(text, i + 1) ELSE i

MatchAt(text, i) ==
    LET signed == i + 1 <= Len(text) /\ text[i + 1] \in {"+", "-"}
        first == IF signed /\ i + 2 <= Len(text) /\ IsDigit(text[i + 2]) THEN i + 1 ELSE i
        whole == DigitsEnd(text, first)
        frac == IF whole + 2 <= Len(text) /\ text[whole + 1] = "." /\ IsDigit(text[whole + 2])
                THEN DigitsEnd(text, whole + 1) ELSE whole
    IN IF whole > first THEN <<i, frac>> ELSE <<>>

SearchLine(text) ==
    LET starts == {i \in 0..(Len(text) - 1) : MatchAt(text, i) # <<>>}
    IN IF starts = {} THEN <<>>
       ELSE MatchAt(text, CHOOSE i \in starts : \A j \in starts : i <= j)

StopTokens == { <<"T","H","E">>, <<"O","F">>,
                <<"U","N","I","V","E","R","S","I","T","Y">>, <<"S","T","A","T","E">> }

spread_favored_abbr(favored_text, game) ==
    LET cleaned == [i \in 1..Len(favored_text) |->
                       IF IsAlnum(favored_text[i]) \/ favored_text[i] = " "
                       THEN favored_text[i] ELSE " "]
        normalized == JoinWords(SplitWords(Upper(cleaned)))
        away == Upper(game.away_abbr)
        home == Upper(game.home_abbr)
        tokens == SelectSeq(SplitWords(normalized), LAMBDA t : t \notin StopTokens)
        first3 == SubSeq(tokens, 1, Min(3, Len(tokens)))
    IN IF favored_text = <<>> THEN <<>>
       ELSE IF normalized = <<>> THEN <<>>
       ELSE IF away # <<>> /\ Contains(normalized, away) THEN away
       ELSE IF home # <<>> /\ Contains(normalized, home) THEN home
       ELSE IF tokens = <<>> THEN <<>>
       ELSE IF Len(tokens) = 1 THEN SubSeq(tokens[1], 1, Min(3, Len(tokens[1])))
       ELSE [i \in 1..Len(first3) |-> first3[i][1]]

\* str.lower()
Lower(text) ==
    [i \in 1..Len(text) |->
        IF \E k \in 1..26 : UpperCase[k] = text[i]
        THEN LowerCase[CHOOSE k \in 1..26 : UpperCase[k] = text[i]]
        ELSE text[i]]

\* the spread text without a leading "Spread"
strip_spread_prefix(raw) ==
    IF StartsWith(Lower(raw), <<"s","p","r","e","a","d">>)
    THEN Strip(SubSeq(raw, 7, Len(raw)))
    ELSE raw

\* a line that is shown as the text has it
signed_line_as_written(matched) == matched

signed_line(matched) ==
    IF matched[1] \in {"+", "-"} THEN matched ELSE <<"+">> \o matched

favored_line(favored_abbr, line_value) ==
    IF favored_abbr # <<>> THEN favored_abbr \o <<" ">> \o line_value ELSE line_value

\* the spread once its line is found: the favored team and the signed line
matched_line(spread_text, line_match, game) ==
    favored_line(spread_favored_abbr(Strip(SubSeq(spread_text, 1, line_match[1])), game),
                 signed_line(SubSeq(spread_text, line_match[1] + 1, line_match[2])))

compact_spread(spread_text, upper_spread, line_match, game, body_font) ==
    IF spread_text = <<>> \/ upper_spread \in {<<"N","/","A">>, <<"N","O","N","E">>}
    THEN <<"N","/","A">>
    ELSE IF Contains(upper_spread, <<"P","I","C","K">>) \/ upper_spread = <<"P","K">>
    THEN <<"P","K">>
    ELSE IF line_match = <<>> THEN fit_text_to_width(upper_spread, 40, body_font)
    ELSE matched_line(spread_text, line_match, game)

spread_body(spread_text, game, body_font) ==
    compact_spread(spread_text, Upper(spread_text), SearchLine(spread_text), game, body_font)

format_spread_compact(game, body_font) ==
    IF Strip(game.spread_text) = <<>> THEN <<"N","/","A">>
    ELSE spread_body(strip_spread_prefix(Strip(game.spread_text)), game, body_font)

\* the top and the bottom info line of a card (the colours are left out)
get_compact_info_lines(game, state, body_font) ==
    IF state = "upcoming"
    THEN <<format_time_compact(game.start_local), format_spread_compact(game, body_font)>>
    ELSE IF state = "live"
    THEN << IF game.live_period_label # <<>>
            THEN game.away_score \o <<" ">> \o game.live_period_label
            ELSE game.away_score,
            IF game.live_clock # <<>>
            THEN game.home_score \o <<" ">> \o game.live_clock
            ELSE game.home_score >>
    ELSE <<game.away_score, game.home_score>>

\* ------------------------------------------------------------------------
\* Item renderer: an item is its kind, its size and the text drawn on it
\* ------------------------------------------------------------------------
render_league_header(cfg, fs, label) ==
    LET header_logo_size == Max(10, Get(cfg, "header_logo_size_px", 16))
        card_padding == Max(0, Get(cfg, "card_padding_px", 4))
        logo_gap == Max(0, Get(cfg, "logo_gap_px", 3))
        text_w == measure_text(label, fs.font)
        width == (card_padding * 2) + header_logo_size + logo_gap + text_w
    IN [kind |-> "header", width |-> Max(1, width), height |-> DisplayHeight,
        lines |-> <<label>>]

render_section_label(cfg, fs, label) ==
    LET card_padding == Max(0, Get(cfg, "card_padding_px", 4))
        text_w == measure_text(label, fs.font)
    IN [kind |-> "label", width |-> Max(1, text_w + (card_padding * 2)),
        height |-> DisplayHeight, lines |-> <<label>>]

\* int(round(display_height * 0.82))
RoundedLogoHeight == (DisplayHeight * 82 + 50) \div 100

\* the name column of a card: ranks are shown on upcoming games only
team_name(state, abbr, rank) ==
    IF state \in {"live", "final"} THEN abbr ELSE decorate_team(abbr, rank)

\* the card, given its two names and its two info lines
card_of(cfg, body_font, away_name, home_name, info) ==
    LET logo_size == Max(18, Min(DisplayHeight - 2, RoundedLogoHeight))
        card_padding == Max(0, Get(cfg, "card_padding_px", 4))
        logo_gap == Max(0, Get(cfg, "logo_gap_px", 3))
        column_gap == Max(2, logo_gap + 1)
        names_width == Max(measure_text(away_name, body_font),
                           measure_text(home_name, body_font))
        info_width == Max(measure_text(info[1], body_font), measure_text(info[2], body_font))
        at_width == measure_text(<<"@">>, body_font)
        logo_cluster_width == logo_size + logo_gap + at_width + logo_gap + logo_size
        width == (card_padding * 2) + logo_cluster_width + column_gap + names_width
                 + column_gap + info_width
    IN [kind |-> "card", width |-> Max(1, width), height |-> DisplayHeight,
        lines |-> <<fit_text_to_width(away_name, names_width, body_font),
                    fit_text_to_width(home_name, names_width, body_font),
                    fit_text_to_width(info[1], info_width, body_font),
                    fit_text_to_width(info[2], info_width, body_font)>>]

render_game_card(cfg, fs, game, state) ==
    card_of(cfg, fs.body_font,
            team_name(state, game.away_abbr, game.away_rank),
            team_name(state, game.home_abbr, game.home_rank),
            get_compact_info_lines(game, state, fs.body_font))

\* the items of a league with the upcoming section ahead of the live one
build_upcoming_first(cfg, fs, league, upcoming, live, final) ==
    LET show_labels == Get(cfg, "show_section_labels", TRUE)
        section(games, label, state) ==
            IF games = <<>> THEN <<>>
            ELSE (IF show_labels THEN <<render_section_label(cfg, fs, label)>> ELSE <<>>)
                 \o [i \in 1..Len(games) |-> render_game_card(cfg, fs, games[i], state)]
    IN <<render_league_header(cfg, fs, league.name)>>
       \o section(upcoming, <<"U","P","C","O","M","I","N","G">>, "upcoming")
       \o section(live, <<"L","I","V","E">>, "live")
       \o section(final, <<"F","I","N","A","L">>, "final")

build_league_items(cfg, fs, league, upcoming, live, final) ==
    LET show_labels == Get(cfg, "show_section_labels", TRUE)
        section(games, label, state) ==
            IF games = <<>> THEN <<>>
            ELSE (IF show_labels THEN <<render_section_label(cfg, fs, label)>> ELSE <<>>)
                 \o [i \in 1..Len(games) |-> render_game_card(cfg, fs, games[i], state)]
    IN <<render_league_header(cfg, fs, league.name)>>
       \o section(live, <<"L","I","V","E">>, "live")
       \o section(upcoming, <<"U","P","C","O","M","I","N","G">>, "upcoming")
       \o section(final, <<"F","I","N","A","L">>, "final")

\* ------------------------------------------------------------------------
\* Ticker composer and viewport engine
\* ------------------------------------------------------------------------
\* a pixel column is <<k, j>>: column j of the k-th pasted item; Blank is black
Blank == <<0, 0>>

NewImage(width, height) ==
    [kind |-> "image", width |-> width, height |-> height, px |-> [i \in 1..width |-> Blank]]

\* Image.paste(source, (x, 0)): the columns that fall outside the image are dropped
Paste(image, source_px, x) ==
    [image EXCEPT !.px = [i \in 1..image.width |->
        IF x < i /\ i <= x + Len(source_px) THEN source_px[i - x] ELSE image.px[i]]]

\* Image.crop((left, 0, right, height))
Crop(image, left, right) ==
    [kind |-> "image", width |-> right - left, height |-> image.height,
     px |-> [i \in 1..(right - left) |-> image.px[left + i]]]

ItemColumns(k, item) == [j \in 1..item.width |-> <<k, j>>]

spacing_of(cfg) ==
    Max(0, Get(cfg, "segment_spacing_px", 12)) + Max(0, Get(cfg, "section_spacing_px", 20))

\* items pasted side by side with no spacing between them
RECURSIVE ItemXPacked(_, _, _)
ItemXPacked(items, k, spacing) ==
    IF k = 1 THEN 0 ELSE ItemXPacked(items, k - 1, spacing) + items[k - 1].width

\* the x at which item k is pasted
RECURSIVE ItemX(_, _, _)
ItemX(items, k, spacing) ==
    IF k = 1 THEN 0 ELSE ItemX(items, k - 1, spacing) + items[k - 1].width + spacing

RECURSIVE PasteItems(_, _, _, _)
PasteItems(ticker, items, k, spacing) ==
    IF k > Len(items) THEN ticker
    ELSE PasteItems(Paste(ticker, ItemColumns(k, items[k]), ItemX(items, k, spacing)),
                    items, k + 1, spacing)

\* a total that also counts the spacing after the last item
RECURSIVE TotalWidthTrailing(_, _, _)
TotalWidthTrailing(items, i, spacing) ==
    IF i > Len(items) THEN 0
    ELSE items[i].width + spacing + TotalWidthTrailing(items, i + 1, spacing)

RECURSIVE TotalWidth(_, _, _)
TotalWidth(items, i, spacing) ==
    IF i > Len(items) THEN 0
    ELSE items[i].width + (IF i < Len(items) THEN spacing ELSE 0)
         + TotalWidth(items, i + 1, spacing)

\* a composer that returns a blank panel-wide ticker for no items
compose_blank_for_none(cfg, items) ==
    LET spacing == spacing_of(cfg)
        total_width == TotalWidth(items, 1, spacing) + DisplayWidth
    IN PasteItems(NewImage(Max(DisplayWidth, total_width), DisplayHeight), items, 1, spacing)

\* a composer that appends no gap before the loop restarts
compose_without_gap(cfg, items) ==
    IF items = <<>> THEN None
    ELSE PasteItems(NewImage(Max(DisplayWidth, TotalWidth(items, 1, spacing_of(cfg))),
                             DisplayHeight),
                    items, 1, spacing_of(cfg))

compose_ticker_image(cfg, items) ==
    IF items = <<>> THEN None
    ELSE LET spacing == spacing_of(cfg)
             loop_gap == DisplayWidth
             total_width == TotalWidth(items, 1, spacing) + loop_gap
         IN PasteItems(NewImage(Max(DisplayWidth, total_width), DisplayHeight),
                       items, 1, spacing)

\* a viewport that stops at the right edge of the ticker instead of wrapping
render_viewport_unwrapped(ticker, offset) ==
    LET frame == NewImage(DisplayWidth, DisplayHeight)
        left == offset % ticker.width
        right == Min(left + DisplayWidth, ticker.width)
    IN Paste(frame, Crop(ticker, left, right).px, 0)

render_viewport_from_ticker(ticker, offset) ==
    LET frame == NewImage(DisplayWidth, DisplayHeight)
        left == offset % ticker.width
        right == left + DisplayWidth
        first == Crop(ticker, left, ticker.width)
        remainder == right - ticker.width
        second == Crop(ticker, 0, remainder)
    IN IF ticker.width <= DisplayWidth THEN Paste(frame, ticker.px, 0)
       ELSE IF right <= ticker.width THEN Paste(frame, Crop(ticker, left, right).px, 0)
       ELSE Paste(Paste(frame, first.px, 0), second.px, first.width)

\* the "NO GAMES TODAY" frame: a panel-sized image with the message drawn on it
EmptyMessage == <<"N","O"," ","G","A","M","E","S"," ","T","O","D","A","Y">>

render_empty_message ==
    [kind |-> "image", width |-> DisplayWidth, height |-> DisplayHeight,
     px |-> [i \in 1..DisplayWidth |-> <<-1, i>>], text |-> EmptyMessage]

\* ------------------------------------------------------------------------
\* IEEE-754 double arithmetic of the offset remap.  The 53-bit significand
\* of a double is held in five limbs, the most significant first: a leading
\* limb and four limbs of 13 bits (1 + 4 * 13 = 53).  The double
\* [limbs |-> m, exp |-> e] is the number m / 2^(52 + e).  Widths stay
\* below LimbBase.
\* ------------------------------------------------------------------------
LimbBase == 8192

RECURSIVE Pow2(_)
Pow2(n) == IF n = 0 THEN 1 ELSE 2 * Pow2(n - 1)

RECURSIVE BitLength(_)
BitLength(n) == IF n = 0 THEN 0 ELSE 1 + BitLength(n \div 2)

\* the limbs plus c; the leading limb takes the last carry
RECURSIVE PlusSmall(_, _)
PlusSmall(limbs, c) ==
    IF Len(limbs) = 1 THEN <<limbs[1] + c>>
    ELSE LET t == limbs[Len(limbs)] + c
         IN Append(PlusSmall(SubSeq(limbs, 1, Len(limbs) - 1), t \div LimbBase),
                   t % LimbBase)

\* the limbs times n, plus c; the leading limb takes the last carry
RECURSIVE TimesSmall(_, _, _)
TimesSmall(limbs, n, c) ==
    IF Len(limbs) = 1 THEN <<limbs[1] * n + c>>
    ELSE LET t == limbs[Len(limbs)] * n + c
         IN Append(TimesSmall(SubSeq(limbs, 1, Len(limbs) - 1), n, t \div LimbBase),
                   t % LimbBase)

\* n more quotient limbs of r / b, followed by the remainder
RECURSIVE QuotientLimbs(_, _, _)
QuotientLimbs(r, b, n) ==
    IF n = 0 THEN <<r>>
    ELSE <<(r * LimbBase) \div b>> \o QuotientLimbs((r * LimbBase) % b, b, n - 1)

\* float(a) / float(b) for 0 <= a < b, rounded to nearest, ties to even
FloatDiv(a, b) ==
    IF a = 0 THEN [limbs |-> <<0, 0, 0, 0, 0>>, exp |-> 0]
    ELSE LET e == CHOOSE k \in 1..30 : a * Pow2(k) >= b /\ a * Pow2(k - 1) < b
             q == QuotientLimbs(a * Pow2(e) - b, b, 4)
             exact == <<1>> \o SubSeq(q, 1, 4)
             r == q[5]
             up == 2 * r > b \/ (2 * r = b /\ q[4] % 2 = 1)
         IN [limbs |-> IF up THEN PlusSmall(exact, 1) ELSE exact, exp |-> e]

\* x * float(n) for an integer 1 <= n < LimbBase: the exact product, rounded
\* to nearest, ties to even, to 53 significant bits
FloatTimesInt(x, n) ==
    LET product == TimesSmall(x.limbs, n, 0)
        extra == BitLength(product[1]) - 1
        unit == Pow2(extra)
        dropped == product[5] % unit
        kept_is_odd == IF unit = LimbBase THEN product[4] % 2 = 1
                       ELSE (product[5] \div unit) % 2 = 1
        up == extra > 0 /\ (2 * dropped > unit \/ (2 * dropped = unit /\ kept_is_odd))
    IN IF product[1] = 0 THEN x
       ELSE [limbs |-> PlusSmall(product, (IF up THEN unit ELSE 0) - dropped),
             exp |-> x.exp]

\* int(x) for x >= 0
FloatToInt(x) == x.limbs[1] \div Pow2(x.exp)

\* a remap that carries the old offset over unscaled
remap_unscaled(prior_offset, prior_width, new_width) == prior_offset

\* update(): the offset on the new ticker
remap_offset(prior_offset, prior_width, new_width) ==
    LET ratio == FloatDiv(prior_offset % prior_width, prior_width)
        mapped == FloatToInt(FloatTimesInt(ratio, new_width))
    IN Max(0, Min(new_width - 1, mapped))

\* ------------------------------------------------------------------------
\* _fetch_league_payload: the host's cache holds, under the key of the league
\* and date, nothing or one entry with a value and an age in seconds; the
\* response is what the network request ends in
\* ------------------------------------------------------------------------
MinCacheTtl == 30
DefaultUpdateInterval == 120
StaleMaxAge == 86400

IsDict(v) == v.kind = "payload"

\* cache_manager.get(key, max_age): the value of an entry that is not older
cache_get(entry, max_age) ==
    IF IsNone(entry) THEN None
    ELSE IF entry.age <= max_age THEN entry.value
    ELSE None

\* cache_manager.set(key, payload)
cache_set(payload) == [kind |-> "entry", value |-> payload, age |-> 0]

\* a time-to-live taken from the configuration as it is
cache_ttl_unfloored(cfg) == Get(cfg, "update_interval", DefaultUpdateInterval)

cache_ttl_of(cfg) == Max(MinCacheTtl, Get(cfg, "update_interval", DefaultUpdateInterval))

\* the request, given that the fresh read missed: what is returned, the cache
\* after it, and whether the stale read was made
fetch_from_network(entry, response) ==
    IF response.kind = "ok" /\ IsDict(response.payload)
    THEN [result |-> response.payload, cache |-> cache_set(response.payload),
          requests |-> 1, stale_read |-> FALSE]
    ELSE [result |-> IF IsDict(cache_get(entry, StaleMaxAge))
                     THEN cache_get(entry, StaleMaxAge) ELSE None,
          cache |-> entry, requests |-> 1, stale_read |-> TRUE]

fetch_league_payload(cfg, entry, response) ==
    IF IsDict(cache_get(entry, cache_ttl_of(cfg)))
    THEN [result |-> cache_get(entry, cache_ttl_of(cfg)), cache |-> entry,
          requests |-> 0, stale_read |-> FALSE]
    ELSE fetch_from_network(entry, response)

\* ------------------------------------------------------------------------
\* update(): one league of the loop over LEAGUES
\* ------------------------------------------------------------------------
\* the games of a payload that are parsed and pass the filters, whatever their date
RECURSIVE parsed_games_any_date(_, _, _, _, _)
parsed_games_any_date(cfg, events, league, tz, today_date) ==
    IF events = <<>> THEN <<>>
    ELSE LET game == parse_event(Head(events), league, tz)
             rest == parsed_games_any_date(cfg, Tail(events), league, tz, today_date)
         IN IF game = {} THEN rest
            ELSE IF ~passes_ncaa_filters(cfg, CHOOSE x \in game : TRUE, league) THEN rest
            ELSE <<CHOOSE x \in game : TRUE>> \o rest

\* the games of a payload that are parsed, dated today and pass the filters
RECURSIVE parsed_games_of(_, _, _, _, _)
parsed_games_of(cfg, events, league, tz, today_date) ==
    IF events = <<>> THEN <<>>
    ELSE LET game == parse_event(Head(events), league, tz)
             rest == parsed_games_of(cfg, Tail(events), league, tz, today_date)
         IN IF game = {} THEN rest
            ELSE LET g == CHOOSE x \in game : TRUE
                 IN IF DateOf(g.start_local) # today_date THEN rest
                    ELSE IF ~passes_ncaa_filters(cfg, g, league) THEN rest
                    ELSE <<g>> \o rest

\* what one league adds to this cycle: nothing, or its buckets, logo and items
league_entry(cfg, fs, league, payload, buckets) ==
    IF buckets.upcoming = <<>> /\ buckets.live = <<>> /\ buckets.final = <<>>
    THEN [taken |-> FALSE]
    ELSE [taken |-> TRUE,
          key |-> league.key,
          buckets |-> buckets,
          logo |-> payload.logo,
          items |-> build_league_items(cfg, fs, league, buckets.upcoming,
                                       buckets.live, buckets.final)]

\* a league that is taken whether or not a game of it is left
league_games_always(cfg, fs, league, payload, parsed_games) ==
    [taken |-> TRUE,
     key |-> league.key,
     buckets |-> classify(parsed_games, max_games_of(cfg)),
     logo |-> payload.logo,
     items |-> build_league_items(cfg, fs, league,
                                  classify(parsed_games, max_games_of(cfg)).upcoming,
                                  classify(parsed_games, max_games_of(cfg)).live,
                                  classify(parsed_games, max_games_of(cfg)).final)]

league_games(cfg, fs, league, payload, parsed_games) ==
    IF parsed_games = <<>> THEN [taken |-> FALSE]
    ELSE league_entry(cfg, fs, league, payload, classify(parsed_games, max_games_of(cfg)))

league_result(cfg, fs, league, payload, tz, today_date) ==
    IF ~Get(cfg, league.enabled_key, TRUE) THEN [taken |-> FALSE]
    ELSE IF IsNone(payload) THEN [taken |-> FALSE]
    ELSE IF payload.events = <<>> THEN [taken |-> FALSE]
    ELSE league_games(cfg, fs, league, payload,
                      parsed_games_of(cfg, payload.events, league, tz, today_date))

\* the results of the leagues that add something, in the order of LEAGUES
cycle_results(cfg, fs, payloads, tz, today_date) ==
    SelectSeq([i \in 1..Len(LEAGUES) |->
                  league_result(cfg, fs, LEAGUES[i], payloads[LEAGUES[i].key], tz, today_date)],
              LAMBDA r : r.taken)

\* ------------------------------------------------------------------------
\* The plugin
\* ------------------------------------------------------------------------
StartTime == 8
MinDelayFloor == 1
DefaultFrameDelay == 5

NoCall == [op |-> "none", ret |-> "none", composited |-> FALSE,
           empty_cycle |-> FALSE, all_fetched_empty |-> FALSE, preserved |-> FALSE,
           narrowed |-> FALSE, font_before |-> None, raised |-> FALSE, from_offset |-> -1]

preserve_never(new_items, prior_items) == FALSE

\* a guard that keeps the prior content when the cycle brought items
preserve_when_fresh(new_items, prior_items) == new_items # <<>> /\ prior_items # <<>>

\* update(): the partial-failure guard
preserve_prior(new_items, prior_items) == new_items = <<>> /\ prior_items # <<>>

\* update(): the fields of the plugin after the call, given the results of the
\* league loop, the items and the ticker composed of them
update_fields(cfg, fs_before, payloads, results, new_items, new_ticker) ==
    LET keys == {results[i].key : i \in 1..Len(results)}
        preserved == preserve_prior(new_items, vegas_items)
        enabled == {LEAGUES[i].key : i \in {j \in 1..Len(LEAGUES) :
                                                Get(cfg, LEAGUES[j].enabled_key, TRUE)}}
        call == [op |-> "update", ret |-> "none", composited |-> FALSE,
                 empty_cycle |-> new_items = <<>>,
                 all_fetched_empty |->
                     \A k \in enabled : ~IsNone(payloads[k]) /\ payloads[k].events = <<>>,
                 preserved |-> preserved,
                 narrowed |-> /\ ~preserved
                              /\ ~IsNone(new_ticker)
                              /\ ~IsNone(ticker_image)
                              /\ new_ticker.width < ticker_image.width,
                 font_before |-> fs_before,
                 raised |-> FALSE,
                 from_offset |-> -1]
    IN IF preserved
       THEN [enable_scrolling |-> Get(cfg, "enable_scrolling", TRUE),
             font_state |-> refresh_font(cfg, fs_before),
             games_by_league |-> games_by_league,
             league_logo_urls |-> league_logo_urls,
             live_games_count |-> live_games_count,
             vegas_items |-> vegas_items,
             ticker_image |-> ticker_image,
             scroll_offset |-> scroll_offset,
             cycle_complete |-> cycle_complete,
             call |-> call]
       ELSE [enable_scrolling |-> Get(cfg, "enable_scrolling", TRUE),
             font_state |-> refresh_font(cfg, fs_before),
             games_by_league |->
                 [k \in keys |-> (CHOOSE r \in Range(results) : r.key = k).buckets],
             league_logo_urls |->
                 [k \in keys |-> (CHOOSE r \in Range(results) : r.key = k).logo],
             live_games_count |->
                 SumSeq([i \in 1..Len(results) |-> Len(results[i].buckets.live)]),
             vegas_items |-> new_items,
             ticker_image |-> new_ticker,
             scroll_offset |->
                 IF ~IsNone(new_ticker) /\ ~IsNone(ticker_image) /\ ticker_image.width > 0
                 THEN remap_offset(scroll_offset, ticker_image.width, new_ticker.width)
                 ELSE 0,
             cycle_complete |-> FALSE,
             call |-> call]

update_items(cfg, fs_before, payloads, results, new_items) ==
    update_fields(cfg, fs_before, payloads, results, new_items,
                  compose_ticker_image(cfg, new_items))

update_results(cfg, fs_before, payloads, results) ==
    update_items(cfg, fs_before, payloads, results,
                 Concat([i \in 1..Len(results) |-> results[i].items]))

\* update(): the loop over LEAGUES is left by an exception of _parse_event
cycle_raises(cfg, payloads) ==
    \E i \in 1..Len(LEAGUES) :
        /\ Get(cfg, LEAGUES[i].enabled_key, TRUE)
        /\ ~IsNone(payloads[LEAGUES[i].key])
        /\ \E e \in 1..Len(payloads[LEAGUES[i].key].events) :
               parse_event_raises(payloads[LEAGUES[i].key].events[e])

\* update(): the fields of the plugin when the exception leaves update(): the
\* flag and the font are set, the results of the loop are lost
update_raised(cfg, fs_before) ==
    [enable_scrolling |-> Get(cfg, "enable_scrolling", TRUE),
     font_state |-> refresh_font(cfg, fs_before),
     games_by_league |-> games_by_league,
     league_logo_urls |-> league_logo_urls,
     live_games_count |-> live_games_count,
     vegas_items |-> vegas_items,
     ticker_image |-> ticker_image,
     scroll_offset |-> scroll_offset,
     cycle_complete |-> cycle_complete,
     call |-> [NoCall EXCEPT !.op = "update", !.font_before = fs_before, !.raised = TRUE]]

\* update(): the fields of the plugin after the call, given the font state the
\* call starts with and the payloads that the fetch returns for the leagues
update_result(cfg, fs_before, payloads) ==
    IF cycle_raises(cfg, payloads) THEN update_raised(cfg, fs_before)
    ELSE update_results(cfg, fs_before, payloads,
                        cycle_results(cfg, refresh_font(cfg, fs_before), payloads,
                                      get_timezone(cfg), DateOf(wall_clock + get_timezone(cfg))))

UpdateEffect(cfg, fs_before, payloads, opname) ==
    \E r \in {update_result(cfg, fs_before, payloads)} :
        /\ enable_scrolling' = r.enable_scrolling
        /\ font_state' = r.font_state
        /\ games_by_league' = r.games_by_league
        /\ league_logo_urls' = r.league_logo_urls
        /\ live_games_count' = r.live_games_count
        /\ vegas_items' = r.vegas_items
        /\ ticker_image' = r.ticker_image
        /\ scroll_offset' = r.scroll_offset
        /\ cycle_complete' = r.cycle_complete
        /\ last' = [r.call EXCEPT !.op = opname]
        /\ UNCHANGED <<last_frame_ts, dm_image, now, wall_clock>>

Update(payloads) ==
    /\ pc = "ready"
    /\ update_count < MaxUpdates
    /\ update_count' = update_count + 1
    /\ UpdateEffect(config, font_state, payloads, "update")
    /\ UNCHANGED <<config, pc, arg>>

\* __init__ ends with the first update(); when update() raises there is no plugin
Construct(payloads) ==
    /\ pc = "construct"
    /\ UpdateEffect(config, font_state, payloads, "update")
    /\ pc' = IF last'.raised THEN "failed" ELSE "ready"
    /\ UNCHANGED <<config, update_count, arg>>

\* on_config_change(): the host's base class stores the new configuration,
\* the font is refreshed, and update() runs
OnConfigChange(new_config, payloads) ==
    /\ pc = "ready"
    /\ update_count < MaxUpdates
    /\ update_count' = update_count + 1
    /\ config' = new_config
    /\ UpdateEffect(new_config, refresh_font(new_config, font_state), payloads,
                    "on_config_change")
    /\ UNCHANGED <<pc, arg>>

min_delay_of(cfg) == Max(MinDelayFloor, Get(cfg, "scroll_frame_delay", DefaultFrameDelay))

scroll_step_of(cfg) == Max(1, Get(cfg, "scroll_speed_px", 1))

throttle_off(time, frame_ts, min_delay) == FALSE

\* display(): the frame-rate throttle
throttled(time, frame_ts, min_delay) == time - frame_ts < min_delay

\* a cursor that stops at the last column instead of wrapping around
advance_to_the_edge(offset, scroll_step, width) == Min(offset + scroll_step, width - 1)

\* a cursor that moves by one column whatever the configured step
advance_by_one(offset, scroll_step, width) == (offset + 1) % width

\* display(): the scroll cursor after a frame
advance(offset, scroll_step, width) == (offset + scroll_step) % width

\* a display tick that reports a finished cycle when its advance wraps
cycle_complete_on_wrap(flag, offset, advanced) == flag \/ advanced < offset

\* display(): the cycle flag after a frame: the tick leaves it alone
cycle_after_display(flag, offset, advanced) == flag

\* a display tick that consults the frame-rate throttle before the ticker
DisplayThrottleFirst ==
    /\ pc = "ready"
    /\ IF throttled(now, last_frame_ts, min_delay_of(config))
       THEN /\ last' = [NoCall EXCEPT !.op = "display", !.ret = "True"]
            /\ UNCHANGED <<dm_image, scroll_offset, last_frame_ts, cycle_complete>>
       ELSE IF IsNone(ticker_image)
            THEN /\ dm_image' = render_empty_message
                 /\ last' = [NoCall EXCEPT !.op = "display", !.ret = "False",
                                           !.composited = TRUE]
                 /\ UNCHANGED <<scroll_offset, last_frame_ts, cycle_complete>>
            ELSE /\ dm_image' = render_viewport_from_ticker(ticker_image, scroll_offset)
                 /\ scroll_offset' = advance(scroll_offset, scroll_step_of(config),
                                             Max(1, ticker_image.width))
                 /\ cycle_complete' = cycle_after_display(cycle_complete, scroll_offset,
                                                          scroll_offset')
                 /\ last_frame_ts' = now
                 /\ last' = [NoCall EXCEPT !.op = "display", !.ret = "True",
                                           !.composited = TRUE,
                                           !.from_offset = scroll_offset]
    /\ UNCHANGED <<config, enable_scrolling, font_state, ticker_image, vegas_items,
                   games_by_league, league_logo_urls, live_games_count,
                   now, wall_clock, pc, arg, update_count>>

Display ==
    /\ pc = "ready"
    /\ IF IsNone(ticker_image)
       THEN /\ dm_image' = render_empty_message
            /\ last' = [NoCall EXCEPT !.op = "display", !.ret = "False", !.composited = TRUE]
            /\ UNCHANGED <<scroll_offset, last_frame_ts, cycle_complete>>
       ELSE IF throttled(now, last_frame_ts, min_delay_of(config))
            THEN /\ last' = [NoCall EXCEPT !.op = "display", !.ret = "True"]
                 /\ UNCHANGED <<dm_image, scroll_offset, last_frame_ts, cycle_complete>>
            ELSE /\ dm_image' = render_viewport_from_ticker(ticker_image, scroll_offset)
                 /\ scroll_offset' = advance(scroll_offset, scroll_step_of(config),
                                             Max(1, ticker_image.width))
                 /\ cycle_complete' = cycle_after_display(cycle_complete, scroll_offset,
                                                          scroll_offset')
                 /\ last_frame_ts' = now
                 /\ last' = [NoCall EXCEPT !.op = "display", !.ret = "True",
                                           !.composited = TRUE,
                                           !.from_offset = scroll_offset]
    /\ UNCHANGED <<config, enable_scrolling, font_state, ticker_image, vegas_items,
                   games_by_league, league_logo_urls, live_games_count,
                   now, wall_clock, pc, arg, update_count>>

\* ------------------------------------------------------------------------
\* The queries of the host: none of them assigns a field
\* ------------------------------------------------------------------------
is_cycle_complete == FALSE

supports_dynamic_duration == FALSE

has_live_content == live_games_count > 0

\* a query that answers with a list also when there are no items
get_vegas_content_always_list == [kind |-> "list", items |-> vegas_items]

\* the copies of the items, or None when there are none
get_vegas_content == IF vegas_items = <<>> THEN None ELSE [kind |-> "list", items |-> vegas_items]

BoolText(b) == IF b THEN "True" ELSE "False"

\* a query that rewinds the scroll cursor
QueryRewinding(name, result) ==
    /\ pc = "ready"
    /\ last' = [NoCall EXCEPT !.op = name, !.ret = result]
    /\ scroll_offset' = 0
    /\ UNCHANGED <<config, enable_scrolling, font_state, ticker_image, vegas_items,
                   games_by_league, league_logo_urls, live_games_count, cycle_complete,
                   last_frame_ts, dm_image, now, wall_clock, pc, arg, update_count>>

\* one query of the host and what it returns
Query(name, result) ==
    /\ pc = "ready"
    /\ last' = [NoCall EXCEPT !.op = name, !.ret = result]
    /\ UNCHANGED <<config, plugin_vars, dm_image, now, wall_clock, pc, arg, update_count>>

IsCycleComplete == Query("is_cycle_complete", BoolText(is_cycle_complete))

SupportsDynamicDuration == Query("supports_dynamic_duration", BoolText(supports_dynamic_duration))

HasLiveContent == Query("has_live_content", BoolText(has_live_content))

GetVegasContent == Query("get_vegas_content", get_vegas_content.kind)

GetInfo == Query("get_info", "dict")

ResetCycleState ==
    /\ pc = "ready"
    /\ cycle_complete' = FALSE
    /\ scroll_offset' = 0
    /\ last' = [NoCall EXCEPT !.op = "reset_cycle_state"]
    /\ UNCHANGED <<config, enable_scrolling, font_state, ticker_image, vegas_items,
                   games_by_league, league_logo_urls, live_games_count, last_frame_ts,
                   dm_image, now, wall_clock, pc, arg, update_count>>

\* time.time() advances by one unit
Tick ==
    /\ pc = "ready"
    /\ now < StartTime + MaxTime
    /\ now' = now + 1
    /\ last' = [NoCall EXCEPT !.op = "tick"]
    /\ UNCHANGED <<config, plugin_vars, dm_image, wall_clock, pc, arg, update_count>>

\* ------------------------------------------------------------------------
\* Inputs: configurations the host supplies and payloads the fetch returns
\* ------------------------------------------------------------------------
Team(abbr, side) ==
    [is_dict |-> TRUE, homeAway |-> side, abbr |-> abbr, score |-> <<"0">>, rank |-> 0, conf |-> {},
     conf_name |-> <<>>, logo |-> ""]

Event(id, date, state, away, home) ==
    [is_dict |-> TRUE, id |-> id, date |-> {date}, state |-> state, period |-> 0,
     displayClock |-> <<>>, odds_details |-> <<>>, odds_spread |-> {},
     competitions |-> << <<Team(away, "away"), Team(home, "home")>> >>]

Payload(events) == [kind |-> "payload", events |-> events, logo |-> ""]

\* 18:00 UTC on day 0
StartWall == 1080

NYJ == <<"N","Y","J">>
BUF == <<"B","U","F">>
OSU == <<"O","S","U">>
MICH == <<"M","I","C","H">>

OnlyNfl ==
    [league_nba_enabled |-> FALSE, league_nhl_enabled |-> FALSE,
     league_mlb_enabled |-> FALSE, league_ncaaf_enabled |-> FALSE,
     league_ncaam_enabled |-> FALSE]

ConfigA == OnlyNfl @@ [scroll_frame_delay |-> 0, scroll_speed_px |-> 124]

ConfigB ==
    OnlyNfl @@ [scroll_frame_delay |-> 2, scroll_speed_px |-> 90,
                enable_scrolling |-> FALSE, font_size |-> 10,
                max_games_per_section |-> 0, show_section_labels |-> FALSE]

Configs == {ConfigA, ConfigB}

NflPayloads ==
    { None,
      Payload(<<>>),
      Payload(<<Event("e1", 1200, "in", NYJ, BUF)>>),
      Payload(<<Event("e2", 1200 + MinutesPerDay, "pre", NYJ, BUF)>>) }

\* the payloads of one cycle: one for every league, None for the disabled ones
PayloadChoices(cfg) ==
    { [k \in LeagueKeys |->
          IF k = "nfl" /\ Get(cfg, "league_nfl_enabled", TRUE) THEN a ELSE None] :
      a \in NflPayloads }

\* __init__ up to its call of update()
InitFields ==
    /\ enable_scrolling = Get(config, "enable_scrolling", TRUE)
    /\ font_state = refresh_font(config, InitialFontState)
    /\ ticker_image = None
    /\ vegas_items = <<>>
    /\ games_by_league = <<>>
    /\ league_logo_urls = <<>>
    /\ live_games_count = 0
    /\ scroll_offset = 0
    /\ cycle_complete = FALSE
    /\ last_frame_ts = 0
    /\ dm_image = None
    /\ now = StartTime
    /\ wall_clock = StartWall
    /\ last = NoCall

Init ==
    /\ config \in Configs
    /\ InitFields
    /\ arg = None
    /\ update_count = 0
    /\ pc = "construct"

Next ==
    \/ \E payloads \in PayloadChoices(config) : Construct(payloads)
    \/ \E payloads \in PayloadChoices(config) : Update(payloads)
    \/ \E new_config \in Configs :
           \E payloads \in PayloadChoices(new_config) : OnConfigChange(new_config, payloads)
    \/ Display
    \/ ResetCycleState
    \/ Tick

Spec == Init /\ [][Next]_vars

\* the display tick alone: the plugin once constructed, with a configured
\* step of 124 columns, one of 90 and one of 0
ScrollConfigs ==
    {ConfigA, ConfigB, OnlyNfl @@ [scroll_frame_delay |-> 0, scroll_speed_px |-> 0]}

InitScroll ==
    /\ config \in ScrollConfigs
    /\ InitFields
    /\ arg = None
    /\ update_count = 0
    /\ pc = "construct"

NextScroll ==
    \/ \E payloads \in PayloadChoices(config) : Construct(payloads)
    \/ Display
    \/ ResetCycleState
    \/ Tick

SpecScroll == InitScroll /\ [][NextScroll]_vars

\* the plugin under a frame delay longer than the time since the epoch, so
\* that the throttle of display() holds from the first call on, beside a
\* configuration without delay
SlowFrames == OnlyNfl @@ [scroll_frame_delay |-> 100, scroll_speed_px |-> 1]

ThrottleConfigs == {SlowFrames, ConfigA}

InitThrottle ==
    /\ config \in ThrottleConfigs
    /\ InitFields
    /\ arg = None
    /\ update_count = 0
    /\ pc = "construct"

NextThrottle ==
    \/ \E payloads \in PayloadChoices(config) : Construct(payloads)
    \/ \E payloads \in PayloadChoices(config) : Update(payloads)
    \/ Display
    \/ ResetCycleState
    \/ Tick

SpecThrottle == InitThrottle /\ [][NextThrottle]_vars

\* the plugin with the queries of the host
NextHost ==
    \/ Next
    \/ IsCycleComplete
    \/ SupportsDynamicDuration
    \/ HasLiveContent
    \/ GetVegasContent
    \/ GetInfo

SpecHost == Init /\ [][NextHost]_vars

\* ------------------------------------------------------------------------
\* The viewport engine alone: display() composes one frame from a ticker
\* and a scroll cursor
\* ------------------------------------------------------------------------
\* a ticker wider than the panel whose columns are all different
ViewportTicker(width) ==
    [kind |-> "image", width |-> width, height |-> DisplayHeight,
     px |-> [i \in 1..width |-> <<1, i>>]]

InitViewport ==
    /\ config = ConfigA
    /\ enable_scrolling = TRUE
    /\ font_state = refresh_font(config, InitialFontState)
    /\ \E width \in (DisplayWidth + 1)..MaxCropWidth :
           /\ ticker_image = ViewportTicker(width)
           /\ scroll_offset \in 0..(width - 1)
    /\ vegas_items = <<>>
    /\ games_by_league = <<>>
    /\ league_logo_urls = <<>>
    /\ live_games_count = 0
    /\ cycle_complete = FALSE
    /\ last_frame_ts = 0
    /\ dm_image = None
    /\ now = StartTime
    /\ wall_clock = StartWall
    /\ last = NoCall
    /\ arg = None
    /\ update_count = 0
    /\ pc = "viewport"

RenderViewport ==
    /\ pc = "viewport"
    /\ dm_image' = render_viewport_from_ticker(ticker_image, scroll_offset)
    /\ pc' = "rendered"
    /\ UNCHANGED <<config, plugin_vars, now, wall_clock, last, arg, update_count>>

NextViewport == RenderViewport

SpecViewport == InitViewport /\ [][NextViewport]_vars

\* ------------------------------------------------------------------------
\* The ticker composer alone: update() composes the ticker of an item list
\* ------------------------------------------------------------------------
Item(width) == [kind |-> "card", width |-> width, height |-> DisplayHeight, lines |-> <<>>]

RECURSIVE ItemLists(_)
ItemLists(n) ==
    IF n = 0 THEN {<<>>}
    ELSE LET shorter == ItemLists(n - 1)
         IN shorter \cup {Append(items, Item(width)) :
                              items \in {l \in shorter : Len(l) = n - 1},
                              width \in 1..MaxItemWidth}

SpacingConfigs ==
    {ConfigA} \cup
    {ConfigA @@ [segment_spacing_px |-> a, section_spacing_px |-> b] :
         a \in {-1, 0, 1}, b \in {-1, 0, 2}}

InitCompose ==
    /\ config \in SpacingConfigs
    /\ InitFields
    /\ arg \in ItemLists(MaxItems)
    /\ update_count = 0
    /\ pc = "compose"

ComposeTicker ==
    /\ pc = "compose"
    /\ vegas_items' = arg
    /\ ticker_image' = compose_ticker_image(config, arg)
    /\ pc' = "composed"
    /\ UNCHANGED <<config, enable_scrolling, font_state, games_by_league, league_logo_urls,
                   live_games_count, scroll_offset, cycle_complete, last_frame_ts,
                   dm_image, now, wall_clock, last, arg, update_count>>

NextCompose == ComposeTicker

SpecCompose == InitCompose /\ [][NextCompose]_vars

\* ------------------------------------------------------------------------
\* The scrolling of narrow content: update() commits an item list of a few
\* columns over no prior ticker and display() is then called for ever.  The
\* throttle reads only now - last_frame_ts, so once the clock has reached its
\* bound the passing of time moves last_frame_ts back instead, down to the
\* point where the minimum frame delay has elapsed.
\* ------------------------------------------------------------------------
PanelConfigs ==
    { OnlyNfl @@ [scroll_frame_delay |-> 0, scroll_speed_px |-> step,
                  segment_spacing_px |-> a, section_spacing_px |-> 0] :
          step \in {1, DisplayWidth + 1}, a \in {0, 1} }

InitPanel ==
    /\ config \in PanelConfigs
    /\ InitFields
    /\ arg \in ItemLists(MaxPanelItems)
    /\ update_count = 0
    /\ pc = "compose"

\* update(): the commit of the items of a cycle when no ticker was held
CommitItems ==
    /\ pc = "compose"
    /\ ~preserve_prior(arg, vegas_items)
    /\ vegas_items' = arg
    /\ ticker_image' = compose_ticker_image(config, arg)
    /\ scroll_offset' = 0
    /\ cycle_complete' = FALSE
    /\ last' = [NoCall EXCEPT !.op = "update", !.empty_cycle = (arg = <<>>)]
    /\ pc' = "ready"
    /\ UNCHANGED <<config, enable_scrolling, font_state, games_by_league, league_logo_urls,
                   live_games_count, last_frame_ts, dm_image, now, wall_clock, arg,
                   update_count>>

\* time.time() advances by one unit
Elapse ==
    /\ pc = "ready"
    /\ IF now < StartTime + MaxTime
       THEN now' = now + 1 /\ UNCHANGED last_frame_ts
       ELSE /\ now - last_frame_ts < min_delay_of(config)
            /\ last_frame_ts' = last_frame_ts - 1
            /\ UNCHANGED now
    /\ last' = [NoCall EXCEPT !.op = "tick"]
    /\ UNCHANGED <<config, enable_scrolling, font_state, ticker_image, vegas_items,
                   games_by_league, league_logo_urls, live_games_count, scroll_offset,
                   cycle_complete, dm_image, wall_clock, pc, arg, update_count>>

NextPanel ==
    \/ CommitItems
    \/ Display
    \/ Elapse

SpecPanel == InitPanel /\ [][NextPanel]_vars

\* the host goes on calling display(), with calls spaced the minimum frame
\* delay apart: time passes, and a frame that is due is composited
SpecPanelRuns ==
    /\ InitPanel
    /\ [][NextPanel]_vars
    /\ WF_vars(CommitItems)
    /\ WF_vars(Elapse)
    /\ WF_vars(Display /\ last'.composited)

\* ------------------------------------------------------------------------
\* The section classifier alone: update() buckets the filtered games of one
\* league
\* ------------------------------------------------------------------------
Game(id, state, start) == [event_id |-> id, state |-> state, start_local |-> start]

GamePool ==
    { Game("f1", "final", 1), Game("f2", "final", 1), Game("f3", "final", 2),
      Game("u1", "upcoming", 2), Game("u2", "upcoming", 1), Game("l1", "live", 1) }

\* the lists of at most n different games of the pool
RECURSIVE GameLists(_)
GameLists(n) ==
    IF n = 0 THEN {<<>>}
    ELSE LET shorter == GameLists(n - 1)
         IN shorter \cup {Append(games, g) :
                              games \in {l \in shorter : Len(l) = n - 1},
                              g \in GamePool}

NoRepeats(games) == \A i, j \in 1..Len(games) : i # j => games[i] # games[j]

ClassifierConfigs ==
    {ConfigA} \cup {ConfigA @@ [max_games_per_section |-> n] : n \in 0..2}

InitClassify ==
    /\ config \in ClassifierConfigs
    /\ InitFields
    /\ arg \in {games \in GameLists(MaxGames) : NoRepeats(games)}
    /\ update_count = 0
    /\ pc = "classify"

Classify ==
    /\ pc = "classify"
    /\ games_by_league' = [k \in {"nfl"} |-> classify(arg, max_games_of(config))]
    /\ pc' = "classified"
    /\ UNCHANGED <<config, enable_scrolling, font_state, ticker_image, vegas_items,
                   league_logo_urls, live_games_count, scroll_offset, cycle_complete,
                   last_frame_ts, dm_image, now, wall_clock, last, arg, update_count>>

NextClassify == Classify

SpecClassify == InitClassify /\ [][NextClassify]_vars

\* ------------------------------------------------------------------------
\* The NCAA filter alone: update() asks whether a parsed game of a league
\* passes the configured filters
\* ------------------------------------------------------------------------
Competitor(abbr, side, rank, conf, conf_name) ==
    [is_dict |-> TRUE, homeAway |-> side, abbr |-> abbr, score |-> <<"0">>, rank |-> rank, conf |-> conf,
     conf_name |-> conf_name, logo |-> ""]

\* abbreviation, rank (0: unranked), conference id, conference name
Schools ==
    { <<OSU, 3, {5}, <<"B","i","g"," ","T","e","n">> >>,
      <<MICH, 0, {}, <<"I","v","y">> >>,
      <<NYJ, 30, {9}, <<>> >>,
      <<BUF, 25, {}, <<>> >> }

Matchup(away, home) ==
    [is_dict |-> TRUE, id |-> "m", date |-> {1200}, state |-> "pre", period |-> 0,
     displayClock |-> <<>>, odds_details |-> <<>>, odds_spread |-> {},
     competitions |-> << <<Competitor(away[1], "away", away[2], away[3], away[4]),
                           Competitor(home[1], "home", home[2], home[3], home[4])>> >>]

ListOf(texts) == [type |-> "list", value |-> texts]

TeamSettings ==
    { [league_nfl_enabled |-> TRUE],
      [ncaaf_teams |-> ListOf(<< <<"o","s","u">> >>)],
      [ncaaf_teams |-> ListOf(<< <<" ">> >>)],
      [ncaaf_teams |-> [type |-> "str", value |-> <<" ",","," ","M","I","C","H">>]] }

ConferenceSettings ==
    { [league_nba_enabled |-> TRUE],
      [ncaaf_conferences |-> ListOf(<< <<"b","i","g"," "," ","t","e","n">> >>)],
      [ncaaf_conferences |-> ListOf(<< <<"I","V","Y">> >>)] }

Top25Settings ==
    { [league_nhl_enabled |-> TRUE], [ncaa_top25_only |-> TRUE] }

NcaaConfigs == {t @@ c @@ r : t \in TeamSettings, c \in ConferenceSettings, r \in Top25Settings}

FilterLeagues == {LEAGUES[i] : i \in {j \in 1..Len(LEAGUES) : LEAGUES[j].key \in {"nfl", "ncaaf", "ncaam"}}}

InitFilter ==
    /\ config \in NcaaConfigs
    /\ InitFields
    /\ \E away \in Schools, home \in Schools, league \in FilterLeagues :
           /\ away # home
           /\ arg = [game |-> CHOOSE g \in parse_event(Matchup(away, home), league,
                                                       get_timezone(config)) : TRUE,
                     league |-> league]
    /\ update_count = 0
    /\ pc = "filter"

PassesNcaaFilters ==
    /\ pc = "filter"
    /\ last' = [NoCall EXCEPT
                  !.op = "_passes_ncaa_filters",
                  !.ret = IF passes_ncaa_filters(config, arg.game, arg.league)
                          THEN "True" ELSE "False"]
    /\ pc' = "filtered"
    /\ UNCHANGED <<config, plugin_vars, dm_image, now, wall_clock, arg, update_count>>

NextFilter == PassesNcaaFilters

SpecFilter == InitFilter /\ [][NextFilter]_vars

\* ------------------------------------------------------------------------
\* The upstream query alone: _fetch_league_payload builds the parameters of
\* one league and scopes them with _apply_ncaa_query_filters
\* ------------------------------------------------------------------------
\* _passes_ncaa_filters: the branch that decides a game
passes_branch(cfg, league) ==
    IF ~league.is_ncaa \/ league.ncaa_kind = "" THEN "none"
    ELSE
    LET team_key == IF league.ncaa_kind = "football" THEN "ncaaf_teams" ELSE "ncaam_teams"
        teams == Range(normalize_team_filters(get_list_config(cfg, team_key)))
        conference_key == IF league.ncaa_kind = "football"
                          THEN "ncaaf_conferences" ELSE "ncaam_conferences"
        names == get_list_config(cfg, conference_key)
        selected_conference_names == {normalize_name(names[i]) : i \in 1..Len(names)}
        conference_ids == selected_conference_ids(cfg, league.ncaa_kind)
    IN IF teams # {} THEN "team"
       ELSE IF conference_ids # {} \/ selected_conference_names # {} THEN "conference"
       ELSE IF Get(cfg, "ncaa_top25_only", FALSE) THEN "top25"
       ELSE "default"

\* _apply_ncaa_query_filters: the branch that scopes the query
query_branch(cfg, league) ==
    IF league.ncaa_kind = "" THEN "none"
    ELSE
    LET team_key == IF league.ncaa_kind = "football" THEN "ncaaf_teams" ELSE "ncaam_teams"
        teams == Range(normalize_team_filters(get_list_config(cfg, team_key)))
        conference_ids == selected_conference_ids(cfg, league.ncaa_kind)
    IN IF teams # {} THEN "team"
       ELSE IF conference_ids # {} THEN "conference"
       ELSE IF Get(cfg, "ncaa_top25_only", FALSE) THEN "top25"
       ELSE "default"

\* params with the key "groups" set / removed
SetGroups(params, group) == [k \in DOMAIN params \cup {"groups"} |->
                                IF k = "groups" THEN group ELSE params[k]]

PopGroups(params) == [k \in DOMAIN params \ {"groups"} |-> params[k]]

apply_ncaa_query_filters(cfg, league, params) ==
    LET branch == query_branch(cfg, league) IN
    IF branch = "none" THEN params
    ELSE IF branch = "top25" THEN PopGroups(params)
    ELSE IF league.default_group # "" THEN SetGroups(params, league.default_group)
    ELSE params

\* _fetch_league_payload: the parameters of the request
query_params(cfg, league) ==
    LET params == [dates |-> "today", limit |-> 500, tz |-> get_timezone(cfg)] IN
    IF league.is_ncaa /\ league.ncaa_kind # ""
    THEN apply_ncaa_query_filters(cfg, league, params)
    ELSE params

\* a conference name that the football lookup table does not hold
UnknownConference == [ncaaf_conferences |-> ListOf(<< <<"B","i","g"," ","E","a","s","t">> >>)]

QueryConfigs ==
    NcaaConfigs \cup {t @@ UnknownConference @@ r : t \in TeamSettings, r \in Top25Settings}

InitQuery ==
    /\ config \in QueryConfigs
    /\ InitFields
    /\ \E league \in FilterLeagues : arg = [league |-> league, params |-> None]
    /\ update_count = 0
    /\ pc = "query"

BuildQuery ==
    /\ pc = "query"
    /\ arg' = [arg EXCEPT !.params = query_params(config, arg.league)]
    /\ last' = [NoCall EXCEPT !.op = "_fetch_league_payload"]
    /\ pc' = "queried"
    /\ UNCHANGED <<config, plugin_vars, dm_image, now, wall_clock, update_count>>

NextQuery == BuildQuery

SpecQuery == InitQuery /\ [][NextQuery]_vars

\* ------------------------------------------------------------------------
\* The refresh alone: the constructor's update() and one more update(), over
\* payloads of two leagues with well-formed and malformed events
\* ------------------------------------------------------------------------
BOS == <<"B","O","S">>
LAL == <<"L","A","L">>

\* a competitor entry that is not a dict
NotATeam == [Team(<<>>, "") EXCEPT !.is_dict = FALSE]

WithOdds(event, details) == [event EXCEPT !.odds_details = details]

\* 20:00 UTC on day 0, live
LiveEvent == Event("e1", 1200, "in", NYJ, BUF)
\* 00:00 UTC on day 1, 19:00 in New York on day 0
EveningEvent == WithOdds(Event("e3", 1440, "pre", NYJ, BUF), <<"B","U","F"," ","-","3",".","5">>)
\* 10:00 UTC on day 0
MorningEvent == Event("e4", 600, "pre", BUF, NYJ)
FinalEvent == Event("e5", 900, "post", NYJ, BUF)
TomorrowEvent == Event("e2", 1200 + MinutesPerDay, "pre", NYJ, BUF)

NotADictEvent == [Event("b1", 1200, "in", NYJ, BUF) EXCEPT !.is_dict = FALSE]
NoCompetitionsEvent == [Event("b2", 1200, "in", NYJ, BUF) EXCEPT !.competitions = <<>>]
OneCompetitorEvent ==
    [Event("b3", 1200, "in", NYJ, BUF) EXCEPT !.competitions = << <<Team(NYJ, "away")>> >>]
NoDateEvent == [Event("b4", 1200, "in", NYJ, BUF) EXCEPT !.date = {}]
\* the home entry is not a dict
BadCompetitorEvent ==
    [Event("b5", 1200, "in", NYJ, BUF) EXCEPT
        !.competitions = << <<Team(NYJ, "away"), NotATeam>> >>]
\* a third entry is not a dict: both sides are found before it is reached
BadThirdEntryEvent ==
    [Event("b6", 1200, "in", NYJ, BUF) EXCEPT
        !.competitions = << <<Team(NYJ, "away"), Team(BUF, "home"), NotATeam>> >>]

NflEventLists ==
    { <<>>,
      <<LiveEvent, EveningEvent, FinalEvent>>,
      <<EveningEvent, MorningEvent>>,
      <<TomorrowEvent>>,
      <<NotADictEvent, LiveEvent>>,
      <<NoCompetitionsEvent, OneCompetitorEvent, NoDateEvent, FinalEvent>>,
      <<BadCompetitorEvent, LiveEvent>>,
      <<BadThirdEntryEvent>> }

NbaEventLists ==
    { <<Event("n1", 1300, "pre", BOS, LAL)>>,
      <<Event("n2", 1300 + MinutesPerDay, "pre", BOS, LAL)>>,
      <<Event("n1", 1300, "pre", BOS, LAL), BadCompetitorEvent>> }

RefreshBase ==
    [league_nhl_enabled |-> FALSE, league_mlb_enabled |-> FALSE,
     league_ncaaf_enabled |-> FALSE, league_ncaam_enabled |-> FALSE]

RefreshConfigs ==
    { RefreshBase,
      RefreshBase @@ [league_nba_enabled |-> FALSE, show_section_labels |-> FALSE],
      RefreshBase @@ [timezone |-> 540, max_games_per_section |-> 1] }

\* what the fetch returns for every league: a payload or nothing
RefreshPayloads ==
    { [k \in LeagueKeys |-> IF k = "nfl" THEN a ELSE IF k = "nba" THEN b ELSE None] :
      a \in {None} \cup {Payload(events) : events \in NflEventLists},
      b \in {None} \cup {Payload(events) : events \in NbaEventLists} }

InitRefresh ==
    /\ config \in RefreshConfigs
    /\ InitFields
    /\ arg = None
    /\ update_count = 0
    /\ pc = "construct"

\* __init__ with the payloads its update() is given
Load(payloads) ==
    /\ pc = "construct"
    /\ UpdateEffect(config, font_state, payloads, "update")
    /\ pc' = IF last'.raised THEN "failed" ELSE "ready"
    /\ arg' = payloads
    /\ UNCHANGED <<config, update_count>>

\* one more update() with the payloads it is given
Refresh(payloads) ==
    /\ pc = "ready"
    /\ UpdateEffect(config, font_state, payloads, "update")
    /\ pc' = "refreshed"
    /\ arg' = payloads
    /\ update_count' = update_count + 1
    /\ UNCHANGED config

\* datetime.now() advances by one day
DayPasses ==
    /\ pc = "ready"
    /\ wall_clock < StartWall + (MaxDay * MinutesPerDay)
    /\ wall_clock' = wall_clock + MinutesPerDay
    /\ last' = [NoCall EXCEPT !.op = "day"]
    /\ UNCHANGED <<config, plugin_vars, dm_image, now, pc, arg, update_count>>

NextRefresh ==
    \/ \E payloads \in RefreshPayloads : Load(payloads)
    \/ \E payloads \in RefreshPayloads : Refresh(payloads)
    \/ DayPasses

SpecRefresh == InitRefresh /\ [][NextRefresh]_vars

\* ------------------------------------------------------------------------
\* The fetch alone: _fetch_league_payload for the NFL over a cache entry and
\* a response, then the update() of __init__ with what it returned
\* ------------------------------------------------------------------------
\* a JSON value that is not a dict
NotADict == [kind |-> "list"]

CachedPayload == Payload(<<FinalEvent>>)
FetchedPayload == Payload(<<LiveEvent>>)
NbaPayload == Payload(<<Event("n1", 1300, "pre", BOS, LAL)>>)

CacheAges ==
    {0, MinCacheTtl, MinCacheTtl + 1, DefaultUpdateInterval, DefaultUpdateInterval + 1,
     StaleMaxAge, StaleMaxAge + MaxAgeExcess}

CacheEntries ==
    {None} \cup {[kind |-> "entry", value |-> v, age |-> a] :
                    v \in {CachedPayload, NotADict}, a \in CacheAges}

\* the request succeeds with a JSON value, or fails in one of three ways
Responses ==
    { [kind |-> "ok", payload |-> FetchedPayload],
      [kind |-> "ok", payload |-> Payload(<<>>)],
      [kind |-> "ok", payload |-> NotADict],
      [kind |-> "network_error", payload |-> None],
      [kind |-> "http_status", payload |-> None],
      [kind |-> "bad_json", payload |-> None] }

FetchConfigs ==
    { RefreshBase,
      RefreshBase @@ [update_interval |-> 10],
      RefreshBase @@ [update_interval |-> DefaultUpdateInterval + 1] }

InitFetch ==
    /\ config \in FetchConfigs
    /\ InitFields
    /\ \E entry \in CacheEntries, response \in Responses :
           arg = [cache_before |-> entry, response |-> response, cache |-> entry,
                  result |-> None, requests |-> 0, stale_read |-> FALSE]
    /\ update_count = 0
    /\ pc = "fetch"

FetchLeaguePayload ==
    /\ pc = "fetch"
    /\ \E r \in {fetch_league_payload(config, arg.cache, arg.response)} :
           arg' = [arg EXCEPT !.cache = r.cache, !.result = r.result,
                              !.requests = r.requests, !.stale_read = r.stale_read]
    /\ last' = [NoCall EXCEPT !.op = "_fetch_league_payload"]
    /\ pc' = "fetched"
    /\ UNCHANGED <<config, plugin_vars, dm_image, now, wall_clock, update_count>>

\* the update() of __init__ goes on with what the fetch returned for the NFL
\* and with a payload for the NBA
UpdateWithFetched ==
    /\ pc = "fetched"
    /\ UpdateEffect(config, font_state,
                    [k \in LeagueKeys |-> IF k = "nfl" THEN arg.result
                                          ELSE IF k = "nba" THEN NbaPayload ELSE None],
                    "update")
    /\ pc' = "ready"
    /\ UNCHANGED <<config, update_count, arg>>

NextFetch ==
    \/ FetchLeaguePayload
    \/ UpdateWithFetched

SpecFetch == InitFetch /\ [][NextFetch]_vars

\* ------------------------------------------------------------------------
\* The info lines of an upcoming card: the update() of __init__ over one NFL
\* event NYJ @ BUF with a start time and odds
\* ------------------------------------------------------------------------
\* the odds of an event: the details text, the numeric spread in tenths, and
\* what they say: a pick'em, the line with its sign, the team named before it
Odds(details, spread, pickem, line, team) ==
    [details |-> details, spread |-> spread, pickem |-> pickem, line |-> line, team |-> team]

OddsCases ==
    { Odds(<<>>, {}, FALSE, <<>>, <<>>),
      Odds(<<"B","U","F"," ","-","3",".","5">>, {-35}, FALSE, <<"-","3",".","5">>, BUF),
      Odds(<<"N","Y","J"," ","3">>, {}, FALSE, <<"+","3">>, NYJ),
      Odds(<<"n","y","j"," ","+","1","0",".","5">>, {}, FALSE, <<"+","1","0",".","5">>, NYJ),
      Odds(<<"P","K">>, {0}, TRUE, <<>>, <<>>),
      Odds(<<"P","i","c","k","'","e","m">>, {}, TRUE, <<>>, <<>>),
      Odds(<<>>, {-35}, FALSE, <<"-","3",".","5">>, <<>>),
      Odds(<<>>, {70}, FALSE, <<"+","7",".","0">>, <<>>),
      Odds(<<"O","F","F">>, {}, FALSE, <<>>, <<>>) }

\* minutes after local midnight of day 0
LocalStarts == {0, 5, 61, 545, 720, 19 * 60, MinutesPerDay - 1}

InitInfoLines ==
    /\ config = RefreshBase
    /\ InitFields
    /\ \E odds \in OddsCases, start \in LocalStarts :
           arg = [odds |-> odds,
                  start |-> start,
                  event |-> [Event("e1", start - get_timezone(config), "pre", NYJ, BUF)
                                EXCEPT !.odds_details = odds.details,
                                       !.odds_spread = odds.spread]]
    /\ update_count = 0
    /\ pc = "construct"

\* __init__ with the one event for the NFL and nothing for the other leagues
LoadEvent ==
    /\ pc = "construct"
    /\ UpdateEffect(config, font_state,
                    [k \in LeagueKeys |-> IF k = "nfl" THEN Payload(<<arg.event>>) ELSE None],
                    "update")
    /\ pc' = "ready"
    /\ UNCHANGED <<config, update_count, arg>>

NextInfoLines == LoadEvent

SpecInfoLines == InitInfoLines /\ [][NextInfoLines]_vars

\* ------------------------------------------------------------------------
\* Properties
\* ------------------------------------------------------------------------
UpdateCalls == {"update", "on_config_change"}

\* C1: whenever the ticker is non-null the scroll offset satisfies
\* 0 <= offset < width of the current ticker, after any sequence of update(),
\* display() and reset_cycle_state() calls, also right after an update() that
\* replaces the ticker with a narrower one.
C1_OffsetInRange ==
    ~IsNone(ticker_image) => 0 <= scroll_offset /\ scroll_offset < ticker_image.width

\* an update() has just replaced the ticker with a narrower one and the cursor
\* is not at the start
C1_AfterNarrowerTicker ==
    /\ last.op \in UpdateCalls
    /\ last.narrowed
    /\ scroll_offset > 0

\* C2: for a ticker wider than the viewport the frame is a circular read:
\* frame column i is ticker column (offset + i) mod width; without wrapping
\* it is ticker[offset : offset + viewportWidth], otherwise ticker[offset : width]
\* followed by ticker[0 : offset + viewportWidth - width].
C2_CircularRead ==
    (pc = "rendered" /\ ticker_image.width > DisplayWidth) =>
        LET width == ticker_image.width
            px == ticker_image.px
        IN /\ dm_image.width = DisplayWidth
           /\ Len(dm_image.px) = DisplayWidth
           /\ \A i \in 0..(DisplayWidth - 1) :
                  dm_image.px[i + 1] = px[((scroll_offset + i) % width) + 1]
           /\ IF scroll_offset + DisplayWidth <= width
              THEN dm_image.px = SubSeq(px, scroll_offset + 1, scroll_offset + DisplayWidth)
              ELSE dm_image.px = SubSeq(px, scroll_offset + 1, width)
                                 \o SubSeq(px, 1, scroll_offset + DisplayWidth - width)

\* a frame has been rendered whose right part wraps to the start of the ticker
C2_WrappedFrame ==
    /\ pc = "rendered"
    /\ ticker_image.width > DisplayWidth
    /\ scroll_offset + DisplayWidth > ticker_image.width
    /\ dm_image.px[DisplayWidth] = ticker_image.px[scroll_offset + DisplayWidth - ticker_image.width]

C4_GuardKeepsContent ==
    [][(last'.op \in UpdateCalls /\ last'.empty_cycle /\ ~IsNone(ticker_image)) =>
           /\ UNCHANGED <<ticker_image, scroll_offset, vegas_items, games_by_league,
                          league_logo_urls, live_games_count, cycle_complete>>
           /\ enable_scrolling' = Get(config', "enable_scrolling", TRUE)
           /\ font_state' = refresh_font(config', last'.font_before)]_vars

\* C4 as stated: the state after such an update() is identical to the state
\* before it, the enable_scrolling flag and the font state included.
C4_GuardKeepsState ==
    [][(last'.op \in UpdateCalls /\ last'.empty_cycle /\ ~IsNone(ticker_image)) =>
           /\ UNCHANGED <<ticker_image, scroll_offset, vegas_items, games_by_league,
                          league_logo_urls, live_games_count, cycle_complete>>
           /\ enable_scrolling' = enable_scrolling
           /\ font_state' = last'.font_before]_vars

\* an update() run by on_config_change() has just produced no items while a
\* ticker existed that display() had already scrolled
C4_GuardTaken ==
    /\ last.op = "on_config_change"
    /\ last.empty_cycle
    /\ last.preserved
    /\ ~IsNone(ticker_image)
    /\ scroll_offset > 0

\* C5: when update() commits a new non-null ticker of width newW while a prior
\* ticker of width oldW existed with offset oldOffset, the new offset is
\* floor((oldOffset mod oldW) * newW / oldW), that is
\* newOffset * oldW <= (oldOffset mod oldW) * newW < (newOffset + 1) * oldW;
\* with no prior ticker, or a null new ticker, the offset is reset to 0.
C5_RemapIsFloor ==
    [][(last'.op \in UpdateCalls /\ ~last'.preserved) =>
           IF ~IsNone(ticker_image') /\ ~IsNone(ticker_image)
           THEN LET old_width == ticker_image.width
                    new_width == ticker_image'.width
                    position == scroll_offset % old_width
                IN /\ 0 <= scroll_offset' /\ scroll_offset' < new_width
                   /\ scroll_offset' * old_width <= position * new_width
                   /\ position * new_width < (scroll_offset' + 1) * old_width
           ELSE scroll_offset' = 0]_vars

\* C6: as the code has it: the three buckets of a league are its upcoming
\* games ascending by start time, its live games ascending and its final
\* games descending, equal start times in input order; each bucket is the
\* leading prefix of that sorted list, cut at max(1, max_games_per_section).
C6_Index(games, g) == CHOOSE i \in 1..Len(games) : games[i] = g

C6_Before(games, x, y, descending) ==
    IF x.start_local # y.start_local
    THEN IF descending THEN x.start_local > y.start_local
         ELSE x.start_local < y.start_local
    ELSE C6_Index(games, x) < C6_Index(games, y)

C6_IsSortedPrefix(games, b, state, descending) ==
    LET members == {g \in Range(games) : g.state = state}
    IN /\ Range(b) \subseteq members
       /\ \A i, j \in 1..Len(b) : i < j => C6_Before(games, b[i], b[j], descending)
       /\ \A g \in members \ Range(b) :
              \A i \in 1..Len(b) : C6_Before(games, b[i], g, descending)

C6_Buckets(cap) ==
    pc = "classified" =>
        LET buckets == games_by_league["nfl"]
            count(state) == Cardinality({g \in Range(arg) : g.state = state})
        IN /\ C6_IsSortedPrefix(arg, buckets.upcoming, "upcoming", FALSE)
           /\ C6_IsSortedPrefix(arg, buckets.live, "live", FALSE)
           /\ C6_IsSortedPrefix(arg, buckets.final, "final", TRUE)
           /\ Len(buckets.upcoming) = Min(cap, count("upcoming"))
           /\ Len(buckets.live) = Min(cap, count("live"))
           /\ Len(buckets.final) = Min(cap, count("final"))

C6_BucketsCutAtLeastOne ==
    C6_Buckets(Max(1, Get(config, "max_games_per_section", 8)))

\* C6 as stated: the buckets are sorted leading prefixes and each has length
\* <= the configured max_games_per_section.
C6_BucketsCutAtConfigured ==
    pc = "classified" =>
        LET buckets == games_by_league["nfl"]
            configured == Get(config, "max_games_per_section", 8)
        IN /\ C6_IsSortedPrefix(arg, buckets.upcoming, "upcoming", FALSE)
           /\ C6_IsSortedPrefix(arg, buckets.live, "live", FALSE)
           /\ C6_IsSortedPrefix(arg, buckets.final, "final", TRUE)
           /\ Len(buckets.upcoming) <= configured
           /\ Len(buckets.live) <= configured
           /\ Len(buckets.final) <= configured

\* three final games, two of them with the same start time, have been cut to
\* two, the later one first
C6_FinalsCut ==
    /\ pc = "classified"
    /\ Cardinality({g \in Range(arg) : g.state = "final"}) = 3
    /\ Len(games_by_league["nfl"].final) = 2
    /\ games_by_league["nfl"].final[1].start_local > games_by_league["nfl"].final[2].start_local

\* C7: for an NCAA league, a non-empty team allow-list decides alone: the
\* game passes exactly if its away or home abbreviation is in the list;
\* else a conference allow-list decides: either side matches by conference
\* id or by normalized conference name; else ncaa_top25_only decides: either
\* side has rank <= 25; else the game passes.  Games of other leagues pass.
C7_TeamList(cfg, league) ==
    Range(normalize_team_filters(get_list_config(cfg,
        IF league.ncaa_kind = "football" THEN "ncaaf_teams" ELSE "ncaam_teams")))

C7_ConferenceList(cfg, league) ==
    Range(get_list_config(cfg,
        IF league.ncaa_kind = "football" THEN "ncaaf_conferences" ELSE "ncaam_conferences"))

C7_ConferenceMatch(cfg, league, conf, conf_name) ==
    \E entry \in C7_ConferenceList(cfg, league) :
        \/ conf \cap Lookup(NCAA_CONFERENCES[league.ncaa_kind], normalize_name(entry)) # {}
        \/ conf_name # <<>> /\ normalize_name(conf_name) = normalize_name(entry)

C7_Passes(cfg, game, league) ==
    IF ~league.is_ncaa THEN TRUE
    ELSE IF C7_TeamList(cfg, league) # {}
    THEN game.away_abbr \in C7_TeamList(cfg, league)
         \/ game.home_abbr \in C7_TeamList(cfg, league)
    ELSE IF C7_ConferenceList(cfg, league) # {}
    THEN C7_ConferenceMatch(cfg, league, game.away_conf, game.away_conf_name)
         \/ C7_ConferenceMatch(cfg, league, game.home_conf, game.home_conf_name)
    ELSE IF Get(cfg, "ncaa_top25_only", FALSE)
    THEN (\E r \in game.away_rank : r <= 25) \/ (\E r \in game.home_rank : r <= 25)
    ELSE TRUE

C7_FilterPrecedence ==
    pc = "filtered" =>
        (last.ret = "True") = C7_Passes(config, arg.game, arg.league)

\* a game has passed on the team list although the conference list and the
\* Top-25 setting are set and would both exclude it
C7_TeamListOverrides ==
    /\ pc = "filtered"
    /\ arg.league.is_ncaa
    /\ C7_TeamList(config, arg.league) # {}
    /\ arg.game.away_abbr \in C7_TeamList(config, arg.league)
    /\ C7_ConferenceList(config, arg.league) # {}
    /\ ~C7_ConferenceMatch(config, arg.league, arg.game.away_conf, arg.game.away_conf_name)
    /\ ~C7_ConferenceMatch(config, arg.league, arg.game.home_conf, arg.game.home_conf_name)
    /\ Get(config, "ncaa_top25_only", FALSE)
    /\ \A r \in arg.game.away_rank \cup arg.game.home_rank : r > 25
    /\ last.ret = "True"

\* C8: from a plugin that holds no ticker, an update() in which every enabled
\* league's payload has an empty events list leaves the ticker null, and a
\* display() with a null ticker renders the "NO GAMES TODAY" message and
\* returns False.
C8_EmptyEventsNoGames ==
    [][/\ (last'.op \in UpdateCalls /\ last'.all_fetched_empty /\ IsNone(ticker_image)) =>
              IsNone(ticker_image')
       /\ (last'.op = "display" /\ IsNone(ticker_image)) =>
              /\ dm_image' = render_empty_message
              /\ dm_image'.text = <<"N","O"," ","G","A","M","E","S"," ","T","O","D","A","Y">>
              /\ last'.ret = "False"
              /\ IsNone(ticker_image')]_vars

\* the message is on the display and an update() with empty events lists for
\* every enabled league has just left the ticker null
C8_StillNoGames ==
    /\ last.op \in UpdateCalls
    /\ last.all_fetched_empty
    /\ IsNone(ticker_image)
    /\ dm_image = render_empty_message

\* C9: whenever an update() finds that every enabled league was fetched
\* successfully and has no events, the plugin enters the "no games" state
\* (null ticker), also when a ticker from an earlier update exists.
C9_EmptyFetchEntersNoGames ==
    [][(last'.op \in UpdateCalls /\ last'.all_fetched_empty) =>
           IsNone(ticker_image')]_vars

\* C10: with a non-null ticker, a display() made less than the minimum frame
\* delay after the last composited frame returns True and changes nothing:
\* scroll offset, last-frame timestamp and the host display frame are
\* unchanged and no frame is composited; so two composited frames are at
\* least the minimum delay apart.
C10_ThrottledDisplay ==
    [][(last'.op = "display" /\ ~IsNone(ticker_image)) =>
           LET min_delay == Max(MinDelayFloor,
                                Get(config, "scroll_frame_delay", DefaultFrameDelay))
           IN /\ now - last_frame_ts < min_delay =>
                     /\ last'.ret = "True"
                     /\ ~last'.composited
                     /\ UNCHANGED <<config, plugin_vars, dm_image>>
              /\ last'.composited =>
                     /\ now - last_frame_ts >= min_delay
                     /\ last_frame_ts' = now]_vars

\* a display() has just returned True without compositing, a frame of the
\* ticker being on the display
C10_Throttled ==
    /\ last.op = "display"
    /\ last.ret = "True"
    /\ ~last.composited
    /\ ~IsNone(ticker_image)
    /\ ~IsNone(dm_image)
    /\ now - last_frame_ts < min_delay_of(config)
\* the event is malformed in one of the ways C11 lists
C11_Malformed(event) ==
    \/ ~event.is_dict
    \/ event.competitions = <<>>
    \/ Len(event.competitions[1]) < 2
    \/ \E i \in 1..Len(event.competitions[1]) : ~event.competitions[1][i].is_dict
    \/ event.date = {}

\* the payloads without their malformed events
C11_WellFormed(payloads) ==
    [k \in DOMAIN payloads |->
        IF IsNone(payloads[k]) THEN None
        ELSE [payloads[k] EXCEPT !.events = SelectSeq(@, LAMBDA e : ~C11_Malformed(e))]]

\* the items of an update() over the given payloads
C11_ItemsOf(payloads) ==
    LET results == cycle_results(config, font_state, payloads, get_timezone(config),
                                 DateOf(wall_clock + get_timezone(config)))
    IN Concat([i \in 1..Len(results) |-> results[i].items])

\* C11: malformed event or competitor data never aborts a refresh: update()
\* raises no exception, skips just the events that are not a dict, have no
\* competitions, fewer than two competitors, a competitor entry that is not a
\* dict or no parsable date, and processes the remaining events and leagues:
\* its items are those of the payloads without the malformed events.
C11_MalformedSkipped ==
    (pc \in {"ready", "refreshed", "failed"} /\ last.op \in UpdateCalls) =>
        IF last.raised THEN FALSE
        ELSE ~last.preserved => vegas_items = C11_ItemsOf(C11_WellFormed(arg))


\* C12: _fetch_league_payload returns a fresh cache hit (a dict not older
\* than max(30, update_interval)) without a network call; otherwise it makes
\* one request; a successful dict payload is stored in the cache and returned;
\* on a network error, a non-2xx status, malformed JSON or a non-dict payload
\* the cache is not written and a stale read with max_age 86400 is made; when
\* that misses too the result is None, the league is skipped in this cycle and
\* the other leagues are still processed.
C12_FetchOrder ==
    (pc \in {"fetched", "ready"} /\ last.op \in {"_fetch_league_payload", "update"}) =>
        LET entry == arg.cache_before
            ttl == Max(30, Get(config, "update_interval", 120))
            held == ~IsNone(entry) /\ entry.value.kind = "payload"
            fresh == held /\ entry.age <= ttl
            stale == held /\ entry.age <= 86400
            success == arg.response.kind = "ok" /\ arg.response.payload.kind = "payload"
        IN /\ fresh => /\ arg.requests = 0
                       /\ arg.result = entry.value
                       /\ arg.cache = entry
                       /\ ~arg.stale_read
           /\ ~fresh => arg.requests = 1
           /\ (~fresh /\ success) =>
                  /\ arg.result = arg.response.payload
                  /\ arg.cache = [kind |-> "entry", value |-> arg.response.payload, age |-> 0]
                  /\ ~arg.stale_read
           /\ (~fresh /\ ~success) =>
                  /\ arg.cache = entry
                  /\ arg.stale_read
                  /\ arg.result = IF stale THEN entry.value ELSE None
           /\ (pc = "ready" /\ IsNone(arg.result)) =>
                  /\ "nfl" \notin DOMAIN games_by_league
                  /\ "nba" \in DOMAIN games_by_league
                  /\ \E i \in 1..Len(vegas_items) : vegas_items[i].kind = "card"

\* the request failed, the stale read missed, and the update() of that cycle
\* has gone on to the NBA
C12_LeagueSkipped ==
    /\ pc = "ready"
    /\ last.op = "update"
    /\ arg.requests = 1
    /\ arg.stale_read
    /\ ~IsNone(arg.cache_before)
    /\ arg.cache_before.age > StaleMaxAge
    /\ IsNone(arg.result)
    /\ DOMAIN games_by_league = {"nba"}

\* C13: cycle completion is disabled: after any sequence of update(),
\* display() and reset_cycle_state() calls, also after a display tick whose
\* advance wrapped the offset around, is_cycle_complete() returns False, the
\* internal cycle flag is False and supports_dynamic_duration() returns False.
C13_CycleNeverComplete ==
    /\ ~cycle_complete
    /\ ~is_cycle_complete
    /\ ~supports_dynamic_duration
    /\ last.op \in {"is_cycle_complete", "supports_dynamic_duration"} => last.ret = "False"

\* a display tick has just wrapped the offset around
C13_AdvanceWrapped ==
    /\ last.op = "display"
    /\ last.composited
    /\ last.from_offset >= 0
    /\ scroll_offset < last.from_offset
    /\ ~IsNone(ticker_image)

Queries ==
    {"get_vegas_content", "has_live_content", "is_cycle_complete",
     "supports_dynamic_duration", "get_info"}

\* C14 as stated: the scroll cursor is mutated only by the display tick and by
\* explicit reset; update(), on_config_change() and the queries leave the
\* scroll offset unchanged.
C14_OnlyDisplayAndReset ==
    [][last'.op \notin {"display", "reset_cycle_state"} =>
           scroll_offset' = scroll_offset]_vars

\* C14: as the code has it: the scroll cursor is mutated only by the display
\* tick, by explicit reset and by an update() that commits its cycle (also the
\* one on_config_change() runs), which remaps the cursor onto the new ticker
\* or resets it to 0; an update() that the guard ends early and the queries
\* leave it unchanged.
C14_CursorWriters ==
    [][/\ last'.op \in Queries => scroll_offset' = scroll_offset
       /\ (last'.op \in UpdateCalls /\ last'.preserved) => scroll_offset' = scroll_offset
       /\ scroll_offset' # scroll_offset =>
              \/ last'.op \in {"display", "reset_cycle_state"}
              \/ /\ last'.op \in UpdateCalls
                 /\ ~last'.preserved
                 /\ IF IsNone(ticker_image') \/ IsNone(ticker_image)
                    THEN scroll_offset' = 0
                    ELSE scroll_offset' =
                             remap_offset(scroll_offset, ticker_image.width,
                                          ticker_image'.width)]_vars

\* on_config_change() has just committed a narrower ticker and left the cursor
\* inside it, away from the start
C14_CursorRemapped ==
    /\ last.op = "on_config_change"
    /\ ~last.preserved
    /\ last.narrowed
    /\ ~IsNone(ticker_image)
    /\ scroll_offset > 0
    /\ scroll_offset < ticker_image.width

\* the card of the one upcoming game on the ticker
C15_Card == vegas_items[Len(vegas_items)]

\* the start time as H:MM and one letter A or P, on the 12-hour clock
C15_TimeText(start) ==
    LET hour == start \div 60
        shown == IF hour % 12 = 0 THEN 12 ELSE hour % 12
    IN NumberText(shown) \o <<":">> \o TwoDigits(start % 60)
       \o (IF hour < 12 THEN <<"A">> ELSE <<"P">>)

C15_Upcoming ==
    /\ "nfl" \in DOMAIN games_by_league
    /\ Len(games_by_league["nfl"].upcoming) = 1
    /\ games_by_league["nfl"].live = <<>>
    /\ games_by_league["nfl"].final = <<>>
    /\ C15_Card.kind = "card"
    /\ C15_Card.lines[3] = C15_TimeText(arg.start)

\* C15 as stated: for a game in the upcoming section the top info line is the
\* start time as 12-hour hour without leading zero, ':', two-digit minutes and
\* 'A' or 'P'; the bottom line is 'N/A' when the spread is absent, 'PK' for a
\* pick'em, otherwise the favored team's abbreviation followed by the signed
\* line.
C15_SpreadNamesTeam ==
    pc = "ready" =>
        /\ C15_Upcoming
        /\ C15_Card.lines[4] \in
               IF arg.odds.details = <<>> /\ arg.odds.spread = {} THEN {<<"N","/","A">>}
               ELSE IF arg.odds.pickem THEN {<<"P","K">>}
               ELSE {abbr \o <<" ">> \o arg.odds.line : abbr \in {NYJ, BUF}}

\* C15: as the code has it: the top line as stated; the bottom line is 'N/A'
\* when there are no odds, 'PK' when the text says PK or pick, otherwise the
\* signed line ('+' added when it has no sign), preceded by the abbreviation
\* of the team and a space only when the text names a team before the line;
\* a text with no number in it is shown in upper case.
C15_InfoLines ==
    pc = "ready" =>
        /\ C15_Upcoming
        /\ C15_Card.lines[4] =
               IF arg.odds.details = <<>> /\ arg.odds.spread = {} THEN <<"N","/","A">>
               ELSE IF arg.odds.pickem THEN <<"P","K">>
               ELSE IF arg.odds.line = <<>> THEN Upper(arg.odds.details)
               ELSE IF arg.odds.team = <<>> THEN arg.odds.line
               ELSE arg.odds.team \o <<" ">> \o arg.odds.line

\* NYJ @ BUF at 7:00 PM with the spread "BUF -3.5" is on the ticker as
\* "7:00P" over "BUF -3.5"
C15_SevenPm ==
    /\ pc = "ready"
    /\ arg.start = 19 * 60
    /\ arg.odds.details = <<"B","U","F"," ","-","3",".","5">>
    /\ C15_Card.lines[3] = <<"7",":","0","0","P">>
    /\ C15_Card.lines[4] = <<"B","U","F"," ","-","3",".","5">>
    /\ Len(games_by_league["nfl"].upcoming) = 1

\* the games that the per-league game map holds
C16_GamesHeld ==
    UNION {Range(games_by_league[k][section]) :
               k \in DOMAIN games_by_league, section \in {"upcoming", "live", "final"}}

\* the date that an update() at this moment resolves in the configured timezone
C16_ActiveDate == DateOf(wall_clock + get_timezone(config))

\* C16 as stated: after every update() call, every game held in the
\* per-league game map has a localized start date equal to the active date
\* that update() call resolved in the configured timezone.
C16_HeldGamesAreToday ==
    (pc \in {"ready", "refreshed"} /\ last.op \in UpdateCalls) =>
        \A g \in C16_GamesHeld : DateOf(g.start_local) = C16_ActiveDate

\* C16: as the code has it: after every update() call that commits its cycle,
\* every game held in the per-league game map, and so every game card of the
\* ticker, has a localized start date equal to the active date that call
\* resolved; an update() that the partial-failure guard ends early keeps the
\* games of the earlier cycle, whatever their date.
C16_CommittedGamesAreToday ==
    (pc \in {"ready", "refreshed"} /\ last.op \in UpdateCalls
        /\ ~last.preserved /\ ~last.raised) =>
        /\ \A g \in C16_GamesHeld : DateOf(g.start_local) = C16_ActiveDate
        /\ Cardinality({i \in 1..Len(vegas_items) : vegas_items[i].kind = "card"})
               = Cardinality(C16_GamesHeld)

\* on day 1 an update() has committed the NFL game of day 1 and dropped the
\* NBA game of day 0 that its payload held
C16_OtherDayDropped ==
    /\ pc = "refreshed"
    /\ ~last.preserved
    /\ ~last.raised
    /\ wall_clock = StartWall + MinutesPerDay
    /\ DOMAIN games_by_league = {"nfl"}
    /\ Get(config, "league_nba_enabled", TRUE)
    /\ ~IsNone(arg["nba"])
    /\ arg["nba"].events # <<>>

\* C17: each display() call that is not throttled and has a non-null ticker
\* first composites the frame from the offset held before the call and then
\* sets the offset to (offset + step) mod ticker.width with
\* step = max(1, scroll_speed_px); so the first composited frame after
\* reset_cycle_state() starts at ticker column 0.
C17_CompositeThenAdvance ==
    [][/\ (last'.op = "display" /\ last'.composited /\ ~IsNone(ticker_image)) =>
              LET width == ticker_image.width
                  step == IF Get(config, "scroll_speed_px", 1) >= 1
                          THEN Get(config, "scroll_speed_px", 1) ELSE 1
              IN /\ \A i \in 0..(DisplayWidth - 1) :
                        dm_image'.px[i + 1] = ticker_image.px[((scroll_offset + i) % width) + 1]
                 /\ scroll_offset' = (scroll_offset + step) % width
                 /\ last.op = "reset_cycle_state" => dm_image'.px[1] = ticker_image.px[1]
       /\ last'.op = "reset_cycle_state" => scroll_offset' = 0]_vars

\* display() has just composited a frame from a cursor inside the ticker and
\* moved the cursor on by the configured step
C17_FrameThenStep ==
    /\ last.op = "display"
    /\ last.composited
    /\ ~IsNone(ticker_image)
    /\ last.from_offset > 0
    /\ dm_image.px[1] = ticker_image.px[last.from_offset + 1]
    /\ scroll_offset = (last.from_offset + scroll_step_of(config)) % ticker_image.width
    /\ scroll_offset # last.from_offset

\* display() has just moved the cursor by one column under a configured step of 0
C17_FlooredStep ==
    /\ C17_FrameThenStep
    /\ Get(config, "scroll_speed_px", 1) = 0
    /\ scroll_offset = last.from_offset + 1

\* the spacing between two items and the x of item k, as C18 defines them
C18_Spacing ==
    (IF Get(config, "segment_spacing_px", 12) > 0 THEN Get(config, "segment_spacing_px", 12) ELSE 0)
    + (IF Get(config, "section_spacing_px", 20) > 0 THEN Get(config, "section_spacing_px", 20) ELSE 0)

C18_X(k) == SumSeq([j \in 1..(k - 1) |-> vegas_items[j].width + C18_Spacing])

Committed ==
    /\ pc \in {"ready", "refreshed"}
    /\ last.op \in UpdateCalls
    /\ ~last.preserved
    /\ ~last.raised

LeagueOf(k) == CHOOSE l \in Range(LEAGUES) : l.key = k

\* the events of the payload of league k that are parsed, dated today and
\* pass the filters
C19_Survivors(k) ==
    IF IsNone(arg[k]) THEN {}
    ELSE {e \in Range(arg[k].events) :
             /\ parse_event(e, LeagueOf(k), get_timezone(config)) # {}
             /\ \A g \in parse_event(e, LeagueOf(k), get_timezone(config)) :
                    /\ DateOf(g.start_local) = DateOf(wall_clock + get_timezone(config))
                    /\ passes_ncaa_filters(config, g, LeagueOf(k))}

\* the number of game cards between the header at position i and the next
\* header or the end
C19_CardsAfter(i) ==
    Cardinality({j \in (i + 1)..Len(vegas_items) :
                     /\ vegas_items[j].kind = "card"
                     /\ \A m \in (i + 1)..j : vegas_items[m].kind # "header"})

\* C19: no empty header is shown: in the item sequence committed by an
\* update() a league contributes items only if it is enabled and at least one
\* of its games survived filtering; every league header is followed by at
\* least one game card of that league before the next header or the end; a
\* league with no game in its three buckets has no entry in the game map.
C19_NoEmptyHeader ==
    Committed =>
        /\ \A k \in LeagueKeys :
               k \in DOMAIN games_by_league <=>
                   (Get(config, LeagueOf(k).enabled_key, TRUE) /\ C19_Survivors(k) # {})
        /\ \A k \in DOMAIN games_by_league :
               Len(games_by_league[k].upcoming) + Len(games_by_league[k].live)
                   + Len(games_by_league[k].final) >= 1
        /\ \A i \in 1..Len(vegas_items) :
               vegas_items[i].kind = "header" =>
                   \E k \in DOMAIN games_by_league :
                       /\ vegas_items[i].lines = <<LeagueOf(k).name>>
                       /\ C19_CardsAfter(i) >= 1
                       /\ C19_CardsAfter(i) =
                              Len(games_by_league[k].upcoming) + Len(games_by_league[k].live)
                                  + Len(games_by_league[k].final)
        /\ Cardinality({i \in 1..Len(vegas_items) : vegas_items[i].kind = "header"})
               = Cardinality(DOMAIN games_by_league)

\* an update() has committed the NFL while the enabled NBA, whose payload
\* held events, is left without a game: it has no header and no entry
C19_LeagueDropped ==
    /\ Committed
    /\ Get(config, "league_nba_enabled", TRUE)
    /\ ~IsNone(arg["nba"])
    /\ arg["nba"].events # <<>>
    /\ C19_Survivors("nba") = {}
    /\ "nba" \notin DOMAIN games_by_league
    /\ "nfl" \in DOMAIN games_by_league
    /\ \A i \in 1..Len(vegas_items) : vegas_items[i].lines # <<LeagueOf("nba").name>>

\* what C20 tells of an item: its kind and the text on it
C20_Shown(items) == [i \in 1..Len(items) |-> <<items[i].kind, items[i].lines>>]

\* a section as C20 orders it: nothing for an empty bucket, else the label
\* when labels are shown, then the cards in bucket order
C20_Section(games, label, state) ==
    IF games = <<>> THEN <<>>
    ELSE (IF Get(config, "show_section_labels", TRUE) THEN << <<"label", <<label>> >> >> ELSE <<>>)
         \o [i \in 1..Len(games) |->
                <<"card", render_game_card(config, font_state, games[i], state).lines>>]

C20_League(k) ==
    IF k \notin DOMAIN games_by_league THEN <<>>
    ELSE << <<"header", <<LeagueOf(k).name>> >> >>
         \o C20_Section(games_by_league[k].live, <<"L","I","V","E">>, "live")
         \o C20_Section(games_by_league[k].upcoming, <<"U","P","C","O","M","I","N","G">>,
                        "upcoming")
         \o C20_Section(games_by_league[k].final, <<"F","I","N","A","L">>, "final")

\* C20: the committed item sequence is ordered: the leagues in the order nfl,
\* nba, nhl, mlb, ncaam, ncaaf; within a league the header, then the live
\* section, then upcoming, then final; a section only when its bucket is not
\* empty, its label (when show_section_labels is on) directly before its
\* cards, its cards in bucket order.
C20_ItemOrder ==
    Committed =>
        C20_Shown(vegas_items) =
            C20_League("nfl") \o C20_League("nba") \o C20_League("nhl")
            \o C20_League("mlb") \o C20_League("ncaam") \o C20_League("ncaaf")

\* an update() has committed two leagues, the first with a live, an upcoming
\* and a final game under section labels
C20_TwoLeaguesThreeSections ==
    /\ Committed
    /\ DOMAIN games_by_league = {"nfl", "nba"}
    /\ games_by_league["nfl"].live # <<>>
    /\ games_by_league["nfl"].upcoming # <<>>
    /\ games_by_league["nfl"].final # <<>>
    /\ Get(config, "show_section_labels", TRUE)
    /\ vegas_items[1].lines = <<LeagueOf("nfl").name>>
    /\ vegas_items[2].lines = << <<"L","I","V","E">> >>
    /\ vegas_items[Len(vegas_items)].kind = "card"

\* C21: a display() call with a null ticker reports no progress: it returns
\* False and leaves the scroll offset, the last-frame timestamp and the ticker
\* unchanged; the null-ticker check comes before the frame-delay check, so the
\* 'NO GAMES TODAY' message is rendered on every such call, also one made
\* before the minimum frame delay has elapsed.
C21_NullTickerDisplay ==
    [][(IsNone(ticker_image) /\ last'.op = "display") =>
           /\ last'.ret = "False"
           /\ last'.composited
           /\ dm_image' = render_empty_message
           /\ dm_image'.text = EmptyMessage
           /\ UNCHANGED <<scroll_offset, last_frame_ts, ticker_image>>]_vars

\* display() has rendered the message for a null ticker although the minimum
\* frame delay since the last-frame timestamp has not elapsed
C21_MessageWhileThrottled ==
    /\ IsNone(ticker_image)
    /\ last.op = "display"
    /\ last.ret = "False"
    /\ dm_image = render_empty_message
    /\ now - last_frame_ts < min_delay_of(config)

\* C22: for every NCAA configuration (team allow-list, conference allow-list
\* given by known or unknown conference names, ncaa_top25_only) the branch
\* that scopes the upstream query (team, else conference, else Top-25, else
\* default) is the branch that filters the games client-side; 'groups' is the
\* league's default group in the team, conference and default branches and is
\* absent in the Top-25 branch and for non-NCAA leagues.
C22_SameBranch ==
    pc = "queried" =>
        /\ query_branch(config, arg.league) = passes_branch(config, arg.league)
        /\ IF passes_branch(config, arg.league) \in {"team", "conference", "default"}
           THEN /\ "groups" \in DOMAIN arg.params
                /\ arg.params["groups"] = arg.league.default_group
           ELSE "groups" \notin DOMAIN arg.params

\* C23: once an update() has committed a non-null ticker, no later update(),
\* display(), reset_cycle_state() or on_config_change() makes the ticker null
\* again: every later update() either commits another non-null ticker or
\* keeps the previous one, so display() never returns to the 'NO GAMES TODAY'
\* state for the lifetime of the plugin instance.
C23_TickerStaysNonNull ==
    [][~IsNone(ticker_image) =>
           /\ ~IsNone(ticker_image')
           /\ last'.op \in UpdateCalls =>
                  \/ last'.preserved /\ UNCHANGED <<ticker_image, vegas_items>>
                  \/ /\ ~last'.preserved
                     /\ vegas_items' # <<>>
                     /\ ticker_image' = compose_ticker_image(config', vegas_items')
           /\ last'.op = "display" => last'.ret = "True" /\ dm_image' # render_empty_message]_vars

\* an on_config_change() whose cycle came back empty has kept the ticker of
\* an earlier update(), and the ticker is shown
C23_EmptyCycleKeptTicker ==
    /\ last.op = "on_config_change"
    /\ last.empty_cycle
    /\ last.preserved
    /\ ~IsNone(ticker_image)
    /\ ~IsNone(dm_image)
    /\ dm_image # render_empty_message

C25_ItemsIffTicker ==
    /\ (vegas_items # <<>>) <=> ~IsNone(ticker_image)
    /\ \E cfg \in Configs : ticker_image = compose_ticker_image(cfg, vegas_items)
    /\ IsNone(get_vegas_content) <=> IsNone(ticker_image)
    /\ last.op = "get_vegas_content" => (last.ret = None.kind <=> IsNone(ticker_image))
    /\ last.op = "display" => (last.ret = "False" <=> vegas_items = <<>>)
    /\ last.op \in UpdateCalls /\ last.preserved => ~IsNone(ticker_image) /\ last.empty_cycle

\* get_vegas_content() has returned None while the panel shows the message
\* 'NO GAMES TODAY' that display() drew
C25_NoneWhileNoGames ==
    /\ last.op = "get_vegas_content"
    /\ last.ret = None.kind
    /\ vegas_items = <<>>
    /\ dm_image = render_empty_message
    /\ update_count > 0

\* a display tick has just wrapped the cursor: its new offset is smaller than
\* the old one
C26_Wrapped ==
    /\ ~IsNone(ticker_image)
    /\ last.op = "display"
    /\ last.composited
    /\ 0 <= scroll_offset
    /\ scroll_offset < last.from_offset

\* display() has just composited the frame at offset k
C26_Shown(k) ==
    /\ ~IsNone(ticker_image)
    /\ last.op = "display"
    /\ last.composited
    /\ last.from_offset = k

C26_Offsets == 0..(MaxPanelItems * (MaxItemWidth + 2) + DisplayWidth)

\* with step 1 a loop shows every offset, and each of them once: the cursor
\* goes up by one from 0 to the last column and then wraps to 0
C26_EveryOffsetOncePerLoop ==
    /\ \A k \in C26_Offsets :
           []((~IsNone(ticker_image) /\ scroll_step_of(config) = 1 /\ k < ticker_image.width)
                  => <>C26_Shown(k))
    /\ [][(~IsNone(ticker_image) /\ scroll_step_of(config) = 1
              /\ last'.op = "display" /\ last'.composited) =>
              scroll_offset' = IF scroll_offset = ticker_image.width - 1
                               THEN 0 ELSE scroll_offset + 1]_vars

\* C26 as stated: with a non-null ticker, if display() is called repeatedly
\* with calls spaced at least the minimum frame delay apart and no update() or
\* reset intervenes, the offset eventually wraps around and does so infinitely
\* often, whatever the step; with step 1 every offset in [0, ticker.width) is
\* shown once per loop.
C26_AlwaysWraps ==
    /\ [](~IsNone(ticker_image) => <>C26_Wrapped)
    /\ C26_EveryOffsetOncePerLoop

\* C26: with a non-null ticker, if display() is called repeatedly with calls
\* spaced at least the minimum frame delay apart and no update() or reset
\* intervenes, then, provided the step max(1, scroll_speed_px) is not a
\* multiple of the ticker width, the offset eventually wraps around (a tick
\* whose new offset is smaller than the old one) and does so infinitely
\* often; when the step is a multiple of the ticker width the offset never
\* changes and never wraps; with step 1 every offset in [0, ticker.width) is
\* shown once per loop.
C26_WrapsUnlessStepIsMultiple ==
    /\ []((~IsNone(ticker_image) /\ scroll_step_of(config) % ticker_image.width # 0)
              => <>C26_Wrapped)
    /\ [][(~IsNone(ticker_image) /\ scroll_step_of(config) % ticker_image.width = 0)
              => /\ scroll_offset' = scroll_offset
                 /\ ~C26_Wrapped']_vars
    /\ C26_EveryOffsetOncePerLoop

\* a loop under step 1 has just closed: the frame at the last column of a
\* two-item ticker was composited and the cursor is back at column 0
C26_LoopClosed ==
    /\ C26_Wrapped
    /\ scroll_step_of(config) = 1
    /\ Len(vegas_items) = 2
    /\ last.from_offset = ticker_image.width - 1
    /\ scroll_offset = 0

====
